---- MODULE Spec2Model ----
(***************************************************************************)
(* kv-relay: an HTTP relay that exposes the remote datapath protocol of a  *)
(* key-value engine.  The model covers the HTTP handler (main.ts), the     *)
(* relay operations (mod.ts), the tuple key codec (key_codec.ts), the hex  *)
(* codec (hex.ts) and the record level of the datapath message codecs      *)
(* (protobuf.ts, datapath.proto.ts).  The key-value engine itself is an    *)
(* external collaborator and is modelled from its documented contract.     *)
(*                                                                         *)
(* Conventions.  A byte string is a sequence of 0..255.  An optional value *)
(* (null in the source) is a sequence of length 0 (null) or 1.  A JS       *)
(* string of hex digits is a sequence of one-character strings.  A 64-bit  *)
(* unsigned counter is its 8 base-256 digits, most significant first.  A   *)
(* raw varint is its 4 16-bit limbs, least significant first.              *)
(***************************************************************************)
EXTENDS Integers, Sequences, FiniteSets, TLC

\* ------------------------------------------------------------------ bounds
MaxTime == 4
MaxRanges == 2
MaxRecords == 3
MaxCommits == 1
VsBytes == 2
MaxStreams == 2
MaxBatches == 2

\* ------------------------------------------------------- generic helpers
Null == <<>>
Some(x) == <<x>>
IsNull(o) == Len(o) = 0

RECURSIVE SeqMap(_, _)
SeqMap(Op(_), s) == IF s = <<>> THEN <<>> ELSE <<Op(Head(s))>> \o SeqMap(Op, Tail(s))

RECURSIVE Flatten(_)
Flatten(ss) == IF ss = <<>> THEN <<>> ELSE Head(ss) \o Flatten(Tail(ss))

RECURSIVE Reverse(_)
Reverse(s) == IF s = <<>> THEN <<>> ELSE Reverse(Tail(s)) \o <<Head(s)>>

RECURSIVE Zeros(_)
Zeros(n) == IF n = 0 THEN <<>> ELSE <<0>> \o Zeros(n - 1)

\* Bytewise lexicographic comparison (memcmp, then length): a < b.
\* At the first position where they differ a holds the smaller byte, or a
\* has ended there.
BytesLess(a, b) ==
  \E i \in 1..Len(b) :
    /\ \A j \in 1..(i - 1) : j <= Len(a) /\ a[j] = b[j]
    /\ i > Len(a) \/ a[i] < b[i]

IsPrefixOf(p, s) == Len(p) <= Len(s) /\ SubSeq(s, 1, Len(p)) = p

\* ---------------------------------------------------------------- hex.ts
alphabet == <<"0", "1", "2", "3", "4", "5", "6", "7",
              "8", "9", "a", "b", "c", "d", "e", "f">>
upperAlphabet == <<"0", "1", "2", "3", "4", "5", "6", "7",
                   "8", "9", "A", "B", "C", "D", "E", "F">>

hexTable(b) == <<alphabet[(b \div 16) + 1], alphabet[(b % 16) + 1]>>

\* encodeHex: the two lower-case digits of every byte, in order.
encodeHex(buf) == Flatten(SeqMap(hexTable, buf))

IsWhitespace(c) == c \in {" ", "\t", "\n", "\r"}
IsHexDigit(c) == \E i \in 1..16 : alphabet[i] = c \/ upperAlphabet[i] = c
parseHexDigit(c) == (CHOOSE i \in 1..16 : alphabet[i] = c \/ upperAlphabet[i] = c) - 1

StripWhitespace(str) == SelectSeq(str, LAMBDA c : ~IsWhitespace(c))

\* decodeHex: whitespace removed, then an even number of hex digits of either
\* case, else a TypeError (ok = FALSE).
decodeHexOk(str) ==
  LET s == StripWhitespace(str)
  IN  Len(s) % 2 = 0 /\ \A i \in 1..Len(s) : IsHexDigit(s[i])

decodeHex(str) ==
  LET s == StripWhitespace(str)
  IN  [i \in 1..(Len(s) \div 2) |->
         16 * parseHexDigit(s[2 * i - 1]) + parseHexDigit(s[2 * i])]

\* ---------------------------------------------------------- key_codec.ts
\* A key part is a record [t, b, neg].  t = "bytes": b the bytes; "string":
\* b the UTF-8 bytes of the string; "int": b the big-endian magnitude without
\* leading zeros, neg the sign; "float": b the 8 bytes of the IEEE-754 bit
\* pattern, most significant first; "bool": neg the value.
BytesPart(b) == [t |-> "bytes", b |-> b, neg |-> FALSE]
StringPart(b) == [t |-> "string", b |-> b, neg |-> FALSE]
IntPart(neg, mag) == [t |-> "int", b |-> mag, neg |-> neg]
FloatPart(bits) == [t |-> "float", b |-> bits, neg |-> FALSE]
BoolPart(v) == [t |-> "bool", b |-> <<>>, neg |-> v]

canonicalNaN == <<127, 248, 0, 0, 0, 0, 0, 0>>

\* trimStart: drop the leading zero bytes.
RECURSIVE trimStart(_)
trimStart(array) ==
  IF array = <<>> \/ Head(array) # 0 THEN array ELSE trimStart(Tail(array))

\* decodeBigIntBE: the value of a big-endian magnitude; -0 is 0.
decodeBigIntBE(sign, bytes) ==
  LET mag == trimStart(bytes)
  IN  IntPart(sign /\ mag # <<>>, mag)

Invert(bytes) == [i \in 1..Len(bytes) |-> 255 - bytes[i]]

\* TextDecoder("utf-8", {fatal: true}): whether the bytes are well-formed UTF-8.
IsCont(b, lo, hi) == b >= lo /\ b <= hi
RECURSIVE IsUtf8(_)
IsUtf8(bs) ==
  IF bs = <<>> THEN TRUE
  ELSE LET b == Head(bs)
           n == Len(bs)
       IN  IF b <= 127 THEN IsUtf8(Tail(bs))
           ELSE IF b >= 194 /\ b <= 223
             THEN n >= 2 /\ IsCont(bs[2], 128, 191) /\ IsUtf8(SubSeq(bs, 3, n))
           ELSE IF b >= 224 /\ b <= 239
             THEN /\ n >= 3
                  /\ IsCont(bs[2], IF b = 224 THEN 160 ELSE 128,
                                   IF b = 237 THEN 159 ELSE 191)
                  /\ IsCont(bs[3], 128, 191)
                  /\ IsUtf8(SubSeq(bs, 4, n))
           ELSE IF b >= 240 /\ b <= 244
             THEN /\ n >= 4
                  /\ IsCont(bs[2], IF b = 240 THEN 144 ELSE 128,
                                   IF b = 244 THEN 143 ELSE 191)
                  /\ IsCont(bs[3], 128, 191)
                  /\ IsCont(bs[4], 128, 191)
                  /\ IsUtf8(SubSeq(bs, 5, n))
           ELSE FALSE

\* indexOf(0, from): the first position >= from holding 0, or 0 when none
\* (positions are 1-based here; the source's -1 is 0).
RECURSIVE IndexOfNul(_, _)
IndexOfNul(bytes, from) ==
  IF from > Len(bytes) THEN 0
  ELSE IF bytes[from] = 0 THEN from
  ELSE IndexOfNul(bytes, from + 1)

\* readKvBytes: a null-escaped run.  Every 0x00 followed by 0xff is an escaped
\* zero; the first 0x00 not followed by 0xff ends the run; no such 0x00 is an
\* unexpected end of input (ok = FALSE).  `len` is the source's 0-based cursor.
RECURSIVE readKvBytesFrom(_, _, _)
readKvBytesFrom(bytes, len, chunks) ==
  LET nulPos == IndexOfNul(bytes, len + 1)
  IN  IF nulPos = 0
        THEN [ok |-> FALSE, value |-> <<>>, remaining |-> <<>>]
      ELSE IF ~(nulPos + 1 <= Len(bytes) /\ bytes[nulPos + 1] = 255)
        THEN [ok |-> TRUE,
              value |-> chunks \o SubSeq(bytes, len + 1, nulPos - 1),
              remaining |-> SubSeq(bytes, nulPos + 1, Len(bytes))]
      ELSE readKvBytesFrom(bytes, nulPos + 1,
                           chunks \o SubSeq(bytes, len + 1, nulPos))

readKvBytes(r) == readKvBytesFrom(r, 0, <<>>)

\* readKvString: readKvBytes, then a fatal UTF-8 decode.
readKvString(r) ==
  LET got == readKvBytes(r)
  IN  [got EXCEPT !.ok = got.ok /\ IsUtf8(got.value)]

\* readKvInt: the integer whose tag has been read; [ok, value, remaining].
readKvInt(r, tag) ==
  LET bad == [ok |-> FALSE, value |-> IntPart(FALSE, <<>>), remaining |-> <<>>]
  IN
  IF tag < 11 \/ tag > 29 THEN bad
  ELSE
    LET sign == tag < 20
        len0 == IF sign THEN 20 - tag ELSE tag - 20
        long == len0 > 8
        eofLen == long /\ r = <<>>
        len == IF ~long THEN len0
               ELSE IF eofLen THEN 0
               ELSE IF sign THEN 255 - r[1] ELSE r[1]
        body == IF long /\ ~eofLen THEN Tail(r) ELSE r
    IN  IF eofLen THEN bad
        ELSE IF len = 0
          THEN [ok |-> TRUE, value |-> IntPart(FALSE, <<>>), remaining |-> body]
        ELSE IF Len(body) < len THEN bad
        ELSE LET raw == SubSeq(body, 1, len)
                 bytes == IF sign THEN Invert(raw) ELSE raw
             IN  [ok |-> TRUE,
                  value |-> decodeBigIntBE(sign, bytes),
                  remaining |-> SubSeq(body, len + 1, Len(body))]

\* A NaN bit pattern: exponent all ones, mantissa not zero.
IsNaNBits(bits) ==
  /\ bits[1] % 128 = 127
  /\ bits[2] \div 16 = 15
  /\ (bits[2] % 16 # 0 \/ \E i \in 3..8 : bits[i] # 0)

\* readKvFloat: 8 bytes; a set top bit means a non-negative float (flip the
\* sign bit back), a clear one a negative float (invert every bit).  Reading
\* the number out of the typed array loses a NaN's sign and payload.
readKvFloat(r) ==
  IF Len(r) < 8
    THEN [ok |-> FALSE, value |-> FloatPart(canonicalNaN), remaining |-> <<>>]
  ELSE LET enc == SubSeq(r, 1, 8)
           bits == IF enc[1] >= 128
                     THEN [enc EXCEPT ![1] = enc[1] - 128]
                     ELSE Invert(enc)
       IN  [ok |-> TRUE,
            value |-> FloatPart(IF IsNaNBits(bits) THEN canonicalNaN ELSE bits),
            remaining |-> SubSeq(r, 9, Len(r))]

\* writeKvBytes: every 0x00 is followed by 0xff; a final 0x00 ends the run.
RECURSIVE writeKvBytes(_)
writeKvBytes(value) ==
  LET nulPos == IndexOfNul(value, 1)
  IN  IF nulPos = 0 THEN value \o <<0>>
      ELSE SubSeq(value, 1, nulPos) \o <<255>>
           \o writeKvBytes(SubSeq(value, nulPos + 1, Len(value)))

\* TextEncoder.encode: the UTF-8 bytes of a string.  A string is held as the
\* UTF-8 bytes of its code points, a lone surrogate as the three bytes
\* ED A0..BF xx; the encoder writes U+FFFD (EF BF BD) for each lone surrogate.
RECURSIVE TextEncode(_)
TextEncode(str) ==
  IF str = <<>> THEN <<>>
  ELSE IF Len(str) >= 3 /\ str[1] = 237 /\ str[2] >= 160
    THEN <<239, 191, 189>> \o TextEncode(SubSeq(str, 4, Len(str)))
  ELSE <<Head(str)>> \o TextEncode(Tail(str))

writeKvString(value) == writeKvBytes(TextEncode(value))

\* writeKvInt: tag 0x14 -/+ len for up to 8 magnitude bytes, else 0x0b / 0x1d
\* and a length byte; a negative magnitude is inverted.  (More than 255
\* magnitude bytes is a RangeError; the model's integers stay below that.)
writeKvInt(part) ==
  LET len == Len(part.b)
  IN  IF part.neg
        THEN (IF len <= 8 THEN <<20 - len>> ELSE <<11, 255 - len>>) \o Invert(part.b)
        ELSE (IF len <= 8 THEN <<20 + len>> ELSE <<29, len>>) \o part.b

\* writeKvFloat: NaN is made canonical (keeping the sign bit), then negatives
\* are inverted and non-negatives get the sign bit set.
writeKvFloat(bits0) ==
  LET bits == IF IsNaNBits(bits0)
                THEN [canonicalNaN EXCEPT ![1] = canonicalNaN[1] + 128 * (bits0[1] \div 128)]
                ELSE bits0
  IN  IF bits[1] >= 128 THEN Invert(bits) ELSE [bits EXCEPT ![1] = bits[1] + 128]

encodeKeyPart(part) ==
  CASE part.t = "string" -> <<2>> \o writeKvString(part.b)
    [] part.t = "float" -> <<33>> \o writeKvFloat(part.b)
    [] part.t = "int" -> writeKvInt(part)
    [] part.t = "bool" -> <<IF part.neg THEN 39 ELSE 38>>
    [] OTHER -> <<1>> \o writeKvBytes(part.b)

encodeKey(key) == Flatten(SeqMap(encodeKeyPart, key))

\* The part switch of decodeKeyImpl: the part whose tag has been read.
readKvPart(tag, rest) ==
  CASE tag = 1 -> LET g == readKvBytes(rest)
                  IN  [ok |-> g.ok, value |-> BytesPart(g.value),
                       remaining |-> g.remaining]
    [] tag = 2 -> LET g == readKvString(rest)
                  IN  [ok |-> g.ok, value |-> StringPart(g.value),
                       remaining |-> g.remaining]
    [] tag = 33 -> readKvFloat(rest)
    [] tag = 38 -> [ok |-> TRUE, value |-> BoolPart(FALSE), remaining |-> rest]
    [] tag = 39 -> [ok |-> TRUE, value |-> BoolPart(TRUE), remaining |-> rest]
    [] OTHER -> readKvInt(rest, tag)

\* decodeKeyImpl: parts are read until the input ends.  With allowRange a tag
\* 0x00 / 0xff sets mode after (1) / before (-1); when it is the last byte the
\* loop ends, otherwise the tag falls through to the part switch (where it is
\* no valid tag).  Result [ok, key, mode]; ok = FALSE is a thrown error.
RECURSIVE decodeKeyLoop(_, _, _)
decodeKeyLoop(r, allowRange, key) ==
  IF r = <<>> THEN [ok |-> TRUE, key |-> key, mode |-> 0]
  ELSE
    LET tag == Head(r)
        rest == Tail(r)
        mode == IF allowRange /\ tag = 0 THEN 1
                ELSE IF allowRange /\ tag = 255 THEN -1
                ELSE 0
        got == readKvPart(tag, rest)
    IN  IF mode # 0 /\ rest = <<>> THEN [ok |-> TRUE, key |-> key, mode |-> mode]
        ELSE IF ~got.ok THEN [ok |-> FALSE, key |-> <<>>, mode |-> 0]
        ELSE decodeKeyLoop(got.remaining, allowRange, Append(key, got.value))

decodeKeyImpl(bytes, allowRange) == decodeKeyLoop(bytes, allowRange, <<>>)

decodeRangeKey(bytes) == decodeKeyImpl(bytes, TRUE)

decodeKey(bytes) == decodeKeyImpl(bytes, FALSE)

\* ------------------------------------------------------------ protobuf.ts
\* The record level of the tag-length-value format.  A message is the
\* sequence of its records; a record is [fieldNumber, wireType, raw, bytes,
\* msg, packed]: raw is the value of a VARINT record, and a LEN record's
\* payload is given three ways, as the decoder of the field may read it:
\* bytes (a bytes field), msg (the records of a nested message) and packed
\* (the varints of a packed repeated field).
VARINT == 0
I64 == 1
LEN == 2
SGROUP == 3
EGROUP == 4
I32 == 5

Raw(n) == <<n % 65536, n \div 65536, 0, 0>>
RawMinusOne32 == <<65535, 65535, 0, 0>>

PbVarint(f, raw) ==
  [fieldNumber |-> f, wireType |-> VARINT, raw |-> raw,
   bytes |-> <<>>, msg |-> <<>>, packed |-> <<>>]
PbBytes(f, bytes) ==
  [fieldNumber |-> f, wireType |-> LEN, raw |-> Raw(0),
   bytes |-> bytes, msg |-> <<>>, packed |-> <<>>]
PbMsg(f, msg) ==
  [fieldNumber |-> f, wireType |-> LEN, raw |-> Raw(0),
   bytes |-> <<>>, msg |-> msg, packed |-> <<>>]
PbPacked(f, packed) ==
  [fieldNumber |-> f, wireType |-> LEN, raw |-> Raw(0),
   bytes |-> <<>>, msg |-> <<>>, packed |-> packed]
PbOther(f, wt) ==
  [fieldNumber |-> f, wireType |-> wt, raw |-> Raw(0),
   bytes |-> <<>>, msg |-> <<>>, packed |-> <<>>]

\* readPbRecord: the wire types it accepts (any other is a TypeError).
readPbRecordOk(record) ==
  record.wireType \in {VARINT, I64, LEN, I32, SGROUP, EGROUP}

\* assertWireType
assertWireType(record, expected) == record.wireType = expected

\* decodePbInt32: Number(BigInt.asIntN(32, raw)).
decodePbInt32(raw) ==
  IF raw[2] >= 32768 THEN (raw[2] - 65536) * 65536 + raw[1]
  ELSE raw[2] * 65536 + raw[1]

\* decodePbInt64: BigInt.asIntN(64, raw), for the values below 2^31 in
\* magnitude (the model's inputs stay in that range).
decodePbInt64(raw) ==
  CASE raw[3] = 0 /\ raw[4] = 0 /\ raw[2] < 32768 -> raw[2] * 65536 + raw[1]
    [] raw[3] = 65535 /\ raw[4] = 65535 /\ raw[2] >= 32768 ->
         (raw[2] - 65536) * 65536 + raw[1]

\* decodePbUint32: Number(BigInt.asUintN(32, raw)), kept as its two limbs.
decodePbUint32(raw) == <<raw[1], raw[2]>>

decodePbBool(raw) == decodePbInt32(raw) # 0

decodePbBytes(raw) == raw

decodePbPackedUint32(packed, into) == into \o SeqMap(decodePbUint32, packed)

encodePbInt32(value) ==
  IF value < 0 THEN <<value % 65536, 65536 + (value \div 65536), 0, 0>>
  ELSE Raw(value)

encodePbBool(value) == encodePbInt32(IF value THEN 1 ELSE 0)

encodePbBytes(value) == value

encodePbUint32(value) == Raw(value)

\* ------------------------------------------- protobuf.ts: the byte level
\* Bit i of a raw varint, and its k-th group of 7 bits.
RawBit(raw, i) ==
  IF i >= 64 THEN 0 ELSE (raw[(i \div 16) + 1] \div (2 ^ (i % 16))) % 2

RawGroup(raw, k) ==
  RawBit(raw, 7 * k) + 2 * RawBit(raw, 7 * k + 1) + 4 * RawBit(raw, 7 * k + 2)
    + 8 * RawBit(raw, 7 * k + 3) + 16 * RawBit(raw, 7 * k + 4)
    + 32 * RawBit(raw, 7 * k + 5) + 64 * RawBit(raw, 7 * k + 6)

\* writePbVarint: the groups of 7 bits, least significant first, every byte
\* but the last with its top bit set.
RECURSIVE writeVarintFrom(_, _)
writeVarintFrom(raw, k) ==
  IF \E m \in (k + 1)..9 : RawGroup(raw, m) # 0
    THEN <<128 + RawGroup(raw, k)>> \o writeVarintFrom(raw, k + 1)
    ELSE <<RawGroup(raw, k)>>

writePbVarint(raw) ==
  IF raw[1] < 128 /\ raw[2] = 0 /\ raw[3] = 0 /\ raw[4] = 0 THEN <<raw[1]>>
  ELSE writeVarintFrom(raw, 0)

\* The position of the last byte of the varint that starts at position i
\* (0: the input ends first, or the varint is longer than 10 bytes).
RECURSIVE VarintEnd(_, _, _)
VarintEnd(r, i, n) ==
  IF i > Len(r) \/ n > 10 THEN 0
  ELSE IF r[i] < 128 THEN i
  ELSE VarintEnd(r, i + 1, n + 1)

GroupBit(groups, i) ==
  IF (i \div 7) + 1 > Len(groups) THEN 0
  ELSE ((groups[(i \div 7) + 1] % 128) \div (2 ^ (i % 7))) % 2

RECURSIVE GroupLimb(_, _, _)
GroupLimb(groups, m, j) ==
  IF j = 16 THEN 0
  ELSE GroupBit(groups, 16 * m + j) * (2 ^ j) + GroupLimb(groups, m, j + 1)

\* readPbVarint: [ok, eof, value, remaining].  eof: no byte was left (the
\* source's null); ok = FALSE: the input ended inside the varint.
readPbVarintTo(r, end) ==
  IF r = <<>> THEN [ok |-> TRUE, eof |-> TRUE, value |-> Raw(0), remaining |-> <<>>]
  ELSE IF end = 0
    THEN [ok |-> FALSE, eof |-> FALSE, value |-> Raw(0), remaining |-> <<>>]
  ELSE IF end = 1
    THEN [ok |-> TRUE, eof |-> FALSE, value |-> Raw(r[1]), remaining |-> Tail(r)]
  ELSE [ok |-> TRUE, eof |-> FALSE,
        value |-> <<GroupLimb(SubSeq(r, 1, end), 0, 0),
                    GroupLimb(SubSeq(r, 1, end), 1, 0),
                    GroupLimb(SubSeq(r, 1, end), 2, 0),
                    GroupLimb(SubSeq(r, 1, end), 3, 0)>>,
        remaining |-> SubSeq(r, end + 1, Len(r))]

readPbVarint(r) == readPbVarintTo(r, VarintEnd(r, 1, 1))

\* The varints of a packed payload, read until the input ends.
RECURSIVE readPackedVarints(_)

readPackedVarintsNext(got) ==
  IF ~got.ok \/ got.eof THEN <<>>
  ELSE <<got.value>> \o readPackedVarints(got.remaining)

readPackedVarints(r) == readPackedVarintsNext(readPbVarint(r))

\* A record no reader accepts: it stands for a payload that is no message.
PbInvalid == PbOther(0, 7)

\* An I64 / I32 record: its 8 / 4 bytes.
PbFixed(f, wt, bytes) ==
  [fieldNumber |-> f, wireType |-> wt, raw |-> Raw(0),
   bytes |-> bytes, msg |-> <<>>, packed |-> <<>>]

noRecord ==
  [ok |-> FALSE, eof |-> FALSE, record |-> PbInvalid, remaining |-> <<>>]

gotRecord(record, remaining) ==
  [ok |-> TRUE, eof |-> FALSE, record |-> record, remaining |-> remaining]

RECURSIVE readPbRecords(_)

\* A LEN record read from bytes: its payload as bytes, as the records of a
\* nested message and as packed varints.
PbLenOf(f, payload, nested) ==
  [fieldNumber |-> f, wireType |-> LEN, raw |-> Raw(0), bytes |-> payload,
   msg |-> IF nested.ok THEN nested.records ELSE <<PbInvalid>>,
   packed |-> readPackedVarints(payload)]

PbLen(f, payload) == PbLenOf(f, payload, readPbRecords(payload))

\* readPbLenPrefix: a varint length, then that many bytes.
readPbLenOf(f, rest, len) ==
  IF len < 0 \/ Len(rest) < len THEN noRecord
  ELSE gotRecord(PbLen(f, SubSeq(rest, 1, len)), SubSeq(rest, len + 1, Len(rest)))

readPbLenPrefix(f, l) ==
  IF ~l.ok \/ l.eof THEN noRecord
  ELSE readPbLenOf(f, l.remaining, decodePbInt32(l.value))

readPbFixed(f, wt, rest, n) ==
  IF Len(rest) < n THEN noRecord
  ELSE gotRecord(PbFixed(f, wt, SubSeq(rest, 1, n)), SubSeq(rest, n + 1, Len(rest)))

readPbVarintValue(f, v) ==
  IF ~v.ok \/ v.eof THEN noRecord
  ELSE gotRecord(PbVarint(f, v.value), v.remaining)

\* A reader that takes an I32 record to end with its tag.
readPbValue_I32Unread(f, wt, rest) ==
  CASE wt = VARINT -> readPbVarintValue(f, readPbVarint(rest))
    [] wt = I64 -> readPbFixed(f, wt, rest, 8)
    [] wt = LEN -> readPbLenPrefix(f, readPbVarint(rest))
    [] wt \in {SGROUP, EGROUP, I32} -> gotRecord(PbOther(f, wt), rest)
    [] OTHER -> noRecord

readPbValue(f, wt, rest) ==
  CASE wt = VARINT -> readPbVarintValue(f, readPbVarint(rest))
    [] wt = I64 -> readPbFixed(f, wt, rest, 8)
    [] wt = LEN -> readPbLenPrefix(f, readPbVarint(rest))
    [] wt = I32 -> readPbFixed(f, wt, rest, 4)
    [] wt \in {SGROUP, EGROUP} -> gotRecord(PbOther(f, wt), rest)
    [] OTHER -> noRecord

readPbTagged(tag, rest) ==
  readPbValue(tag[2] * 8192 + (tag[1] \div 8), tag[1] % 8, rest)

\* readPbRecord: [ok, eof, record, remaining].  The tag is a varint,
\* fieldNumber = tag >>> 3 and wireType = tag & 7; the payload is consumed as
\* the wire type says.
readPbRecordAt(rawTag) ==
  IF ~rawTag.ok THEN noRecord
  ELSE IF rawTag.eof THEN [noRecord EXCEPT !.ok = TRUE, !.eof = TRUE]
  ELSE readPbTagged(decodePbUint32(rawTag.value), rawTag.remaining)

readPbRecord(r) == readPbRecordAt(readPbVarint(r))

\* The records of a message, read until the input ends: [ok, records].
readPbRecordsCons(record, rest) ==
  [ok |-> rest.ok, records |-> <<record>> \o rest.records]

readPbRecordsNext(got) ==
  IF ~got.ok THEN [ok |-> FALSE, records |-> <<>>]
  ELSE IF got.eof THEN [ok |-> TRUE, records |-> <<>>]
  ELSE readPbRecordsCons(got.record, readPbRecords(got.remaining))

readPbRecords(r) == readPbRecordsNext(readPbRecord(r))

RECURSIVE writePbRecords(_)

\* The payload of a LEN record.
lenPayload(record) ==
  IF record.bytes # <<>> THEN record.bytes
  ELSE IF record.msg # <<>> THEN writePbRecords(record.msg)
  ELSE Flatten([i \in 1..Len(record.packed) |-> writePbVarint(record.packed[i])])

writePbLenPrefix(value) == writePbVarint(encodePbInt32(Len(value))) \o value

\* writePbRecord: the tag, then the payload as the wire type says.
writePbRecord(record) ==
  writePbVarint(encodePbUint32(record.fieldNumber * 8 + record.wireType))
    \o (CASE record.wireType = VARINT -> writePbVarint(record.raw)
          [] record.wireType = LEN -> writePbLenPrefix(lenPayload(record))
          [] record.wireType \in {I64, I32} -> record.bytes
          [] OTHER -> <<>>)

\* The bytes a writer holds after the records were written to it in order.
writePbRecords(records) ==
  IF records = <<>> THEN <<>>
  ELSE writePbRecord(Head(records)) \o writePbRecords(Tail(records))

\* ----------------------------------------------------- datapath.proto.ts
SR_UNSPECIFIED == 0
SR_SUCCESS == 1
SR_READ_DISABLED == 2
M_UNSPECIFIED == 0
M_SET == 1
M_DELETE == 2
M_SUM == 3
M_MAX == 4
M_MIN == 5
M_SET_SUFFIX_VERSIONSTAMPED_KEY == 9
VE_UNSPECIFIED == 0
VE_V8 == 1
VE_LE64 == 2
VE_BYTES == 3
AW_UNSPECIFIED == 0
AW_SUCCESS == 1
AW_CHECK_FAILURE == 2
AW_WRITE_DISABLED == 5

\* A decoder result is the message with a field ok; ok = FALSE stands for the
\* exception thrown at the first bad record (the other fields are then unused).
defaultReadRange ==
  [ok |-> TRUE, start |-> <<>>, end |-> <<>>, limit |-> 0, reverse |-> FALSE]

decodeReadRangeField(msg, record) ==
  CASE record.fieldNumber = 1 ->
         IF assertWireType(record, LEN)
           THEN [msg EXCEPT !.start = decodePbBytes(record.bytes)]
           ELSE [msg EXCEPT !.ok = FALSE]
    [] record.fieldNumber = 2 ->
         IF assertWireType(record, LEN)
           THEN [msg EXCEPT !.end = decodePbBytes(record.bytes)]
           ELSE [msg EXCEPT !.ok = FALSE]
    [] record.fieldNumber = 3 ->
         IF assertWireType(record, VARINT)
           THEN [msg EXCEPT !.limit = decodePbInt32(record.raw)]
           ELSE [msg EXCEPT !.ok = FALSE]
    [] record.fieldNumber = 4 ->
         IF assertWireType(record, VARINT)
           THEN [msg EXCEPT !.reverse = decodePbBool(record.raw)]
           ELSE [msg EXCEPT !.ok = FALSE]
    [] OTHER -> msg

RECURSIVE decodeReadRangeLoop(_, _)
decodeReadRangeLoop(msg, r) ==
  IF r = <<>> \/ ~msg.ok THEN msg
  ELSE IF ~readPbRecordOk(Head(r)) THEN [msg EXCEPT !.ok = FALSE]
  ELSE decodeReadRangeLoop(decodeReadRangeField(msg, Head(r)), Tail(r))

decodeReadRange(buf) == decodeReadRangeLoop(defaultReadRange, buf)

defaultSnapshotRead == [ok |-> TRUE, ranges |-> <<>>]

RECURSIVE decodeSnapshotReadLoop(_, _)
decodeSnapshotReadLoop(msg, r) ==
  IF r = <<>> \/ ~msg.ok THEN msg
  ELSE LET record == Head(r)
       IN  IF ~readPbRecordOk(record) THEN [msg EXCEPT !.ok = FALSE]
           ELSE IF record.fieldNumber # 1 THEN decodeSnapshotReadLoop(msg, Tail(r))
           ELSE IF ~assertWireType(record, LEN) THEN [msg EXCEPT !.ok = FALSE]
           ELSE LET range == decodeReadRange(record.msg)
                IN  IF ~range.ok THEN [msg EXCEPT !.ok = FALSE]
                    ELSE decodeSnapshotReadLoop(
                           [msg EXCEPT !.ranges = Append(@, range)], Tail(r))

decodeSnapshotRead(buf) == decodeSnapshotReadLoop(defaultSnapshotRead, buf)

defaultCheck == [ok |-> TRUE, key |-> <<>>, versionstamp |-> <<>>]

RECURSIVE decodeCheckLoop(_, _)
decodeCheckLoop(msg, r) ==
  IF r = <<>> \/ ~msg.ok THEN msg
  ELSE LET record == Head(r)
       IN  IF ~readPbRecordOk(record) THEN [msg EXCEPT !.ok = FALSE]
           ELSE IF record.fieldNumber \notin {1, 2} THEN decodeCheckLoop(msg, Tail(r))
           ELSE IF ~assertWireType(record, LEN) THEN [msg EXCEPT !.ok = FALSE]
           ELSE IF record.fieldNumber = 1
             THEN decodeCheckLoop([msg EXCEPT !.key = decodePbBytes(record.bytes)], Tail(r))
           ELSE decodeCheckLoop(
                  [msg EXCEPT !.versionstamp = decodePbBytes(record.bytes)], Tail(r))

decodeCheck(buf) == decodeCheckLoop(defaultCheck, buf)

defaultKvValue == [ok |-> TRUE, data |-> <<>>, encoding |-> 0]

RECURSIVE decodeKvValueLoop(_, _)
decodeKvValueLoop(msg, r) ==
  IF r = <<>> \/ ~msg.ok THEN msg
  ELSE LET record == Head(r)
       IN  IF ~readPbRecordOk(record) THEN [msg EXCEPT !.ok = FALSE]
           ELSE IF record.fieldNumber = 1
             THEN IF assertWireType(record, LEN)
                    THEN decodeKvValueLoop(
                           [msg EXCEPT !.data = decodePbBytes(record.bytes)], Tail(r))
                    ELSE [msg EXCEPT !.ok = FALSE]
           ELSE IF record.fieldNumber = 2
             THEN IF assertWireType(record, VARINT)
                    THEN decodeKvValueLoop(
                           [msg EXCEPT !.encoding = decodePbInt32(record.raw)], Tail(r))
                    ELSE [msg EXCEPT !.ok = FALSE]
           ELSE decodeKvValueLoop(msg, Tail(r))

decodeKvValue(buf) == decodeKvValueLoop(defaultKvValue, buf)

\* value is null (<<>>) or <<[data, encoding]>>.
defaultMutation ==
  [ok |-> TRUE, key |-> <<>>, value |-> Null, mutation_type |-> 0,
   expire_at_ms |-> 0, sum_min |-> <<>>, sum_max |-> <<>>, sum_clamp |-> FALSE]

decodeMutationField(msg, record) ==
  LET f == record.fieldNumber
      want == IF f \in {3, 4, 7} THEN VARINT ELSE LEN
  IN  IF f \notin 1..7 THEN msg
      ELSE IF ~assertWireType(record, want) THEN [msg EXCEPT !.ok = FALSE]
      ELSE CASE f = 1 -> [msg EXCEPT !.key = decodePbBytes(record.bytes)]
             [] f = 2 -> LET v == decodeKvValue(record.msg)
                         IN  IF v.ok
                               THEN [msg EXCEPT !.value =
                                       Some([data |-> v.data, encoding |-> v.encoding])]
                               ELSE [msg EXCEPT !.ok = FALSE]
             [] f = 3 -> [msg EXCEPT !.mutation_type = decodePbInt32(record.raw)]
             [] f = 4 -> [msg EXCEPT !.expire_at_ms = decodePbInt64(record.raw)]
             [] f = 5 -> [msg EXCEPT !.sum_min = decodePbBytes(record.bytes)]
             [] f = 6 -> [msg EXCEPT !.sum_max = decodePbBytes(record.bytes)]
             [] f = 7 -> [msg EXCEPT !.sum_clamp = decodePbBool(record.raw)]

RECURSIVE decodeMutationLoop(_, _)
decodeMutationLoop(msg, r) ==
  IF r = <<>> \/ ~msg.ok THEN msg
  ELSE IF ~readPbRecordOk(Head(r)) THEN [msg EXCEPT !.ok = FALSE]
  ELSE decodeMutationLoop(decodeMutationField(msg, Head(r)), Tail(r))

decodeMutation(buf) == decodeMutationLoop(defaultMutation, buf)

defaultEnqueue ==
  [ok |-> TRUE, payload |-> <<>>, deadline_ms |-> 0,
   keys_if_undelivered |-> <<>>, backoff_schedule |-> <<>>]

decodeEnqueueField(msg, record) ==
  LET f == record.fieldNumber
  IN  CASE f = 1 -> IF assertWireType(record, LEN)
                      THEN [msg EXCEPT !.payload = decodePbBytes(record.bytes)]
                      ELSE [msg EXCEPT !.ok = FALSE]
        [] f = 2 -> IF assertWireType(record, VARINT)
                      THEN [msg EXCEPT !.deadline_ms = decodePbInt64(record.raw)]
                      ELSE [msg EXCEPT !.ok = FALSE]
        [] f = 3 -> IF assertWireType(record, LEN)
                      THEN [msg EXCEPT !.keys_if_undelivered =
                              Append(@, decodePbBytes(record.bytes))]
                      ELSE [msg EXCEPT !.ok = FALSE]
        [] f = 4 -> IF record.wireType = 0
                      THEN [msg EXCEPT !.backoff_schedule =
                              Append(@, decodePbUint32(record.raw))]
                    ELSE IF assertWireType(record, LEN)
                      THEN [msg EXCEPT !.backoff_schedule =
                              decodePbPackedUint32(record.packed, @)]
                    ELSE [msg EXCEPT !.ok = FALSE]
        [] OTHER -> msg

RECURSIVE decodeEnqueueLoop(_, _)
decodeEnqueueLoop(msg, r) ==
  IF r = <<>> \/ ~msg.ok THEN msg
  ELSE IF ~readPbRecordOk(Head(r)) THEN [msg EXCEPT !.ok = FALSE]
  ELSE decodeEnqueueLoop(decodeEnqueueField(msg, Head(r)), Tail(r))

decodeEnqueue(buf) == decodeEnqueueLoop(defaultEnqueue, buf)

defaultAtomicWrite ==
  [ok |-> TRUE, checks |-> <<>>, mutations |-> <<>>, enqueues |-> <<>>]

\* decodeAtomicWrite: every field 1 / 2 / 3 record is decoded and pushed onto
\* checks / mutations / enqueues, in the order the records are read.
decodeAtomicWriteField(msg, record) ==
  LET f == record.fieldNumber
  IN  IF f \notin {1, 2, 3} THEN msg
      ELSE IF ~assertWireType(record, LEN) THEN [msg EXCEPT !.ok = FALSE]
      ELSE CASE f = 1 -> LET m == decodeCheck(record.msg)
                         IN  IF m.ok THEN [msg EXCEPT !.checks = Append(@, m)]
                             ELSE [msg EXCEPT !.ok = FALSE]
             [] f = 2 -> LET m == decodeMutation(record.msg)
                         IN  IF m.ok THEN [msg EXCEPT !.mutations = Append(@, m)]
                             ELSE [msg EXCEPT !.ok = FALSE]
             [] f = 3 -> LET m == decodeEnqueue(record.msg)
                         IN  IF m.ok THEN [msg EXCEPT !.enqueues = Append(@, m)]
                             ELSE [msg EXCEPT !.ok = FALSE]

RECURSIVE decodeAtomicWriteLoop(_, _)
decodeAtomicWriteLoop(msg, r) ==
  IF r = <<>> \/ ~msg.ok THEN msg
  ELSE IF ~readPbRecordOk(Head(r)) THEN [msg EXCEPT !.ok = FALSE]
  ELSE decodeAtomicWriteLoop(decodeAtomicWriteField(msg, Head(r)), Tail(r))

decodeAtomicWrite(buf) == decodeAtomicWriteLoop(defaultAtomicWrite, buf)

defaultWatchKey == [ok |-> TRUE, key |-> <<>>]

RECURSIVE decodeWatchKeyLoop(_, _)
decodeWatchKeyLoop(msg, r) ==
  IF r = <<>> \/ ~msg.ok THEN msg
  ELSE LET record == Head(r)
       IN  IF ~readPbRecordOk(record) THEN [msg EXCEPT !.ok = FALSE]
           ELSE IF record.fieldNumber # 1 THEN decodeWatchKeyLoop(msg, Tail(r))
           ELSE IF ~assertWireType(record, LEN) THEN [msg EXCEPT !.ok = FALSE]
           ELSE decodeWatchKeyLoop([msg EXCEPT !.key = decodePbBytes(record.bytes)], Tail(r))

decodeWatchKey(buf) == decodeWatchKeyLoop(defaultWatchKey, buf)

defaultWatch == [ok |-> TRUE, keys |-> <<>>]

RECURSIVE decodeWatchLoop(_, _)
decodeWatchLoop(msg, r) ==
  IF r = <<>> \/ ~msg.ok THEN msg
  ELSE LET record == Head(r)
       IN  IF ~readPbRecordOk(record) THEN [msg EXCEPT !.ok = FALSE]
           ELSE IF record.fieldNumber # 1 THEN decodeWatchLoop(msg, Tail(r))
           ELSE IF ~assertWireType(record, LEN) THEN [msg EXCEPT !.ok = FALSE]
           ELSE LET k == decodeWatchKey(record.msg)
                IN  IF ~k.ok THEN [msg EXCEPT !.ok = FALSE]
                    ELSE decodeWatchLoop([msg EXCEPT !.keys = Append(@, k)], Tail(r))

decodeWatch(buf) == decodeWatchLoop(defaultWatch, buf)

\* ------------------------------------------------------- v8_serializer.ts
\* A JS value is [kind, data]: kind "bytes" (a Uint8Array, data its bytes),
\* "u64" (a Deno.KvU64, data its 8 digits, most significant first) or "js"
\* (any other structured value, data naming it).  The structured serializer
\* is the runtime's; it is modelled as an injective format with a two-byte
\* header, and the deserializer rejects anything else.
JsBytes(data) == [kind |-> "bytes", data |-> data]
JsU64(digits) == [kind |-> "u64", data |-> digits]
JsObject(id) == [kind |-> "js", data |-> <<id>>]

serialize(value) == <<255, 15>> \o value.data

deserializeOk(buffer) ==
  Len(buffer) = 3 /\ SubSeq(buffer, 1, 2) = <<255, 15>>

deserialize(buffer) == JsObject(buffer[3])

\* ----------------------------------------------------------------- mod.ts
\* serializeValue: a Uint8Array is BYTES, a KvU64 its 8 little-endian bytes
\* as LE64, anything else goes through the structured serializer as V8.
serializeValue(value) ==
  IF value.kind = "bytes" THEN [data |-> value.data, encoding |-> VE_BYTES]
  ELSE IF value.kind = "u64" THEN [data |-> Reverse(value.data), encoding |-> VE_LE64]
  ELSE [data |-> serialize(value), encoding |-> VE_V8]

\* serializeEntry: encoded key, value envelope, raw versionstamp (a null
\* versionstamp decodes as the empty hex string).
serializeEntry(entry) ==
  LET v == serializeValue(entry.value)
  IN  [key |-> encodeKey(entry.key),
       value |-> v.data,
       encoding |-> v.encoding,
       versionstamp |-> decodeHex(IF IsNull(entry.versionstamp) THEN <<>>
                                  ELSE entry.versionstamp[1])]

\* deserializeValue: [ok, value]; ok = FALSE is the TypeError thrown for a
\* null envelope, an LE64 that is not 8 bytes, an unknown encoding, or the
\* deserializer's own error.
\* deserializeValue without the test of the length of an LE64.
deserializeValue_AnyLength(value) ==
  LET bad == [ok |-> FALSE, value |-> JsBytes(<<>>)]
  IN  IF IsNull(value) THEN bad
      ELSE LET data == value[1].data
               encoding == value[1].encoding
           IN  CASE encoding = VE_V8 ->
                      IF deserializeOk(data)
                        THEN [ok |-> TRUE, value |-> deserialize(data)]
                        ELSE bad
                 [] encoding = VE_LE64 -> [ok |-> TRUE, value |-> JsU64(Reverse(data))]
                 [] encoding = VE_BYTES -> [ok |-> TRUE, value |-> JsBytes(data)]
                 [] OTHER -> bad

deserializeValue(value) ==
  LET bad == [ok |-> FALSE, value |-> JsBytes(<<>>)]
  IN  IF IsNull(value) THEN bad
      ELSE LET data == value[1].data
               encoding == value[1].encoding
           IN  CASE encoding = VE_V8 ->
                      IF deserializeOk(data)
                        THEN [ok |-> TRUE, value |-> deserialize(data)]
                        ELSE bad
                 [] encoding = VE_LE64 ->
                      IF Len(data) # 8 THEN bad
                      ELSE [ok |-> TRUE, value |-> JsU64(Reverse(data))]
                 [] encoding = VE_BYTES -> [ok |-> TRUE, value |-> JsBytes(data)]
                 [] OTHER -> bad

\* deserializeKvU64 without its instanceof test.
deserializeKvU64_AnyValue(value) == deserializeValue(value)

\* deserializeKvU64: the value must be a KvU64.
deserializeKvU64(value) ==
  LET u64 == deserializeValue(value)
  IN  IF u64.ok /\ u64.value.kind # "u64" THEN [u64 EXCEPT !.ok = FALSE] ELSE u64

\* The key part that kv.commitVersionstamp() stands for until commit.
commitVersionstamp == [t |-> "versionstamp", b |-> <<>>, neg |-> FALSE]

\* One operation attached to an atomic transaction.  Unused arguments are
\* null; options that the source leaves out of the options object are null.
AtomicOp(op, key, versionstamp, value, expireIn) ==
  [op |-> op, key |-> key, versionstamp |-> versionstamp, value |-> value,
   expireIn |-> expireIn, delay |-> Null, keysIfUndelivered |-> Null,
   backoffSchedule |-> Null]

\* checkVersionstamp testing the length in place of the bytes.
checkVersionstamp_EmptyOnly(versionstamp) ==
  IF Len(versionstamp) = 0 THEN Null ELSE Some(encodeHex(versionstamp))

\* The checks loop body: the decoded key, and a versionstamp that is null
\* when no byte of it is non-zero and its hex encoding otherwise.
checkVersionstamp(versionstamp) ==
  IF \E i \in 1..Len(versionstamp) : versionstamp[i] # 0
    THEN Some(encodeHex(versionstamp))
    ELSE Null

buildCheckAt(key, check) ==
  [ok |-> key.ok,
   op |-> AtomicOp("check", key.key, checkVersionstamp(check.versionstamp), Null, Null)]

\* The checks loop body.
buildCheck(check) == buildCheckAt(decodeKey(check.key), check)

\* expireIn = Number(expire_at_ms) - now when expire_at_ms is not 0.
setOptions(mutation, nowMs) ==
  IF mutation.expire_at_ms # 0 THEN Some(mutation.expire_at_ms - nowMs) ELSE Null

\* An operation that carries the deserialized value v ([ok, value]).
valueOp(op, key, v, expireIn) ==
  [ok |-> v.ok, op |-> AtomicOp(op, key, Null, Some(v.value), expireIn)]

noOp == [ok |-> FALSE, op |-> AtomicOp("none", <<>>, Null, Null, Null)]

\* The switch on mutation_type, for the decoded key.
buildMutationAt(key, mutation, nowMs) ==
  IF ~key.ok THEN noOp
  ELSE CASE mutation.mutation_type = M_SET ->
              valueOp("set", key.key, deserializeValue(mutation.value),
                      setOptions(mutation, nowMs))
         [] mutation.mutation_type = M_DELETE ->
              [ok |-> TRUE, op |-> AtomicOp("delete", key.key, Null, Null, Null)]
         [] mutation.mutation_type = M_SUM ->
              valueOp("sum", key.key, deserializeKvU64(mutation.value), Null)
         [] mutation.mutation_type = M_MAX ->
              valueOp("max", key.key, deserializeKvU64(mutation.value), Null)
         [] mutation.mutation_type = M_MIN ->
              valueOp("min", key.key, deserializeKvU64(mutation.value), Null)
         [] mutation.mutation_type = M_SET_SUFFIX_VERSIONSTAMPED_KEY ->
              valueOp("set", Append(key.key, commitVersionstamp),
                      deserializeValue(mutation.value), setOptions(mutation, nowMs))
         [] OTHER -> noOp

\* The mutations loop body.
buildMutation(mutation, nowMs) ==
  buildMutationAt(decodeKey(mutation.key), mutation, nowMs)

\* keys.map(decodeKey): [ok, keys].
consKeys(k, rest) == [ok |-> k.ok /\ rest.ok, keys |-> <<k.key>> \o rest.keys]

RECURSIVE decodeKeys(_)
decodeKeys(keys) ==
  IF keys = <<>> THEN [ok |-> TRUE, keys |-> <<>>]
  ELSE consKeys(decodeKey(Head(keys)), decodeKeys(Tail(keys)))

\* buildEnqueueAt testing deadline_ms as expire_at_ms is tested.
buildEnqueueAt_DeadlineNonZero(v, keys, enqueue, nowMs) ==
  [ok |-> v.ok /\ keys.ok,
   op |-> [AtomicOp("enqueue", <<>>, Null, Some(v.value), Null) EXCEPT
             !.delay = IF enqueue.deadline_ms # 0
                         THEN Some(enqueue.deadline_ms - nowMs) ELSE Null,
             !.keysIfUndelivered =
                 IF Len(enqueue.keys_if_undelivered) # 0 THEN Some(keys.keys) ELSE Null,
             !.backoffSchedule =
                 IF Len(enqueue.backoff_schedule) # 0
                   THEN Some(enqueue.backoff_schedule) ELSE Null]]

buildEnqueueAt(v, keys, enqueue, nowMs) ==
  [ok |-> v.ok /\ keys.ok,
   op |-> [AtomicOp("enqueue", <<>>, Null, Some(v.value), Null) EXCEPT
             !.delay = IF enqueue.deadline_ms > nowMs
                         THEN Some(enqueue.deadline_ms - nowMs) ELSE Null,
             !.keysIfUndelivered =
                 IF Len(enqueue.keys_if_undelivered) # 0 THEN Some(keys.keys) ELSE Null,
             !.backoffSchedule =
                 IF Len(enqueue.backoff_schedule) # 0
                   THEN Some(enqueue.backoff_schedule) ELSE Null]]

\* The enqueues loop body.
buildEnqueue(enqueue, nowMs) ==
  buildEnqueueAt(deserializeValue(Some([data |-> enqueue.payload, encoding |-> VE_V8])),
                 decodeKeys(enqueue.keys_if_undelivered), enqueue, nowMs)

\* One turn of a for-loop of atomicWrite: the operation b ([ok, op]) is
\* attached, or the body threw.  acc is [ok, ops].
attachOp(b, acc) ==
  IF ~b.ok THEN [acc EXCEPT !.ok = FALSE] ELSE [acc EXCEPT !.ops = Append(@, b.op)]

\* The three for-loops of atomicWrite: the bodies run in order until one
\* throws.
RECURSIVE attachChecks(_, _)
attachChecks(checks, acc) ==
  IF ~acc.ok \/ checks = <<>> THEN acc
  ELSE attachChecks(Tail(checks), attachOp(buildCheck(Head(checks)), acc))

RECURSIVE attachMutations(_, _, _)
attachMutations(mutations, nowMs, acc) ==
  IF ~acc.ok \/ mutations = <<>> THEN acc
  ELSE attachMutations(Tail(mutations), nowMs,
                       attachOp(buildMutation(Head(mutations), nowMs), acc))

RECURSIVE attachEnqueues(_, _, _)
attachEnqueues(enqueues, nowMs, acc) ==
  IF ~acc.ok \/ enqueues = <<>> THEN acc
  ELSE attachEnqueues(Tail(enqueues), nowMs,
                      attachOp(buildEnqueue(Head(enqueues), nowMs), acc))

noOps == [ok |-> TRUE, ops |-> <<>>]

\* buildAtomic with the mutations loop ahead of the checks loop.
buildAtomic_MutationsFirst(msg, nowMs) ==
  attachEnqueues(msg.enqueues, nowMs,
    attachChecks(msg.checks, attachMutations(msg.mutations, nowMs, noOps)))

\* The transaction atomicWrite builds before it commits: the checks loop,
\* then the mutations loop, then the enqueues loop.  [ok, ops].
buildAtomic(msg, nowMs) ==
  attachEnqueues(msg.enqueues, nowMs,
    attachMutations(msg.mutations, nowMs, attachChecks(msg.checks, noOps)))

\* ---------------------------------------------------- the key-value engine
\* Deno.Kv, the external engine, by its documented contract.  The store is a
\* set of entries [key, value, versionstamp], at most one for a key, ordered
\* by the encoded key; a versionstamp is a hex string that grows with every
\* commit.
EngineVersionstamp(n) == encodeHex(Zeros(VsBytes - 1) \o <<n>>)

HexAscii(hex) ==
  [i \in 1..Len(hex) |->
     LET d == parseHexDigit(hex[i]) IN IF d < 10 THEN 48 + d ELSE 87 + d]

EngineKey(key, vs) ==
  [i \in 1..Len(key) |->
     IF key[i] = commitVersionstamp THEN StringPart(HexAscii(vs)) ELSE key[i]]

EngineGet(st, key) == {e \in st : e.key = key}

\* Addition of two 64-bit counters, wrapping (digits most significant first).
RECURSIVE AddDigits(_, _, _, _)
AddDigits(a, b, i, carry) ==
  IF i = 0 THEN <<>>
  ELSE LET sum == a[i] + b[i] + carry
       IN  AddDigits(a, b, i - 1, sum \div 256) \o <<sum % 256>>

EngineCheckPasses(st, op) ==
  LET found == EngineGet(st, op.key)
  IN  IF IsNull(op.versionstamp) THEN found = {}
      ELSE \E e \in found : e.versionstamp = op.versionstamp[1]

\* One mutation applied to the store; [ok, st].  A counter mutation on a
\* stored value that is no counter fails the commit.
EngineApply(acc, op, vs) ==
  LET key == EngineKey(op.key, vs)
      found == EngineGet(acc.st, key)
      others == acc.st \ found
      put(v) == [acc EXCEPT !.st = others \cup {[key |-> key, value |-> v, versionstamp |-> vs]}]
      old == (CHOOSE e \in found : TRUE).value
      operand == op.value[1]
  IN  CASE ~acc.ok -> acc
        [] op.op = "set" -> put(operand)
        [] op.op = "delete" -> [acc EXCEPT !.st = others]
        [] op.op \in {"sum", "max", "min"} ->
             IF found = {} THEN put(operand)
             ELSE IF old.kind # "u64" THEN [acc EXCEPT !.ok = FALSE]
             ELSE IF op.op = "sum"
               THEN put(JsU64(AddDigits(old.data, operand.data, 8, 0)))
             ELSE IF op.op = "max"
               THEN put(IF BytesLess(old.data, operand.data) THEN operand ELSE old)
             ELSE put(IF BytesLess(operand.data, old.data) THEN operand ELSE old)
        [] OTHER -> acc

RECURSIVE EngineApplyAll(_, _, _)
EngineApplyAll(acc, ops, vs) ==
  IF ops = <<>> THEN acc
  ELSE EngineApplyAll(EngineApply(acc, Head(ops), vs), Tail(ops), vs)

\* commit: [outcome, st, queue, versionstamp].  "ok": every check passed, the
\* mutations were applied and the enqueues queued under a new versionstamp;
\* "check": a check did not pass; "error": the commit threw (an engine fault,
\* or a mutation the store cannot apply).  Nothing changes unless "ok".
EngineCommit(st, q, n, ops, fault) ==
  LET vs == EngineVersionstamp(n + 1)
      checks == SelectSeq(ops, LAMBDA op : op.op = "check")
      applied == EngineApplyAll([ok |-> TRUE, st |-> st], ops, vs)
      queued == SeqMap(LAMBDA op : op.value[1],
                       SelectSeq(ops, LAMBDA op : op.op = "enqueue"))
      same(outcome) == [outcome |-> outcome, st |-> st, queue |-> q, versionstamp |-> <<>>]
  IN  IF fault THEN same("error")
      ELSE IF \E i \in 1..Len(checks) : ~EngineCheckPasses(st, checks[i]) THEN same("check")
      ELSE IF ~applied.ok THEN same("error")
      ELSE [outcome |-> "ok", st |-> applied.st, queue |-> q \o queued, versionstamp |-> vs]

\* The entries of a set in ascending order of their encoded keys.
RECURSIVE EngineSort(_)
EngineSort(entries) ==
  IF entries = {} THEN <<>>
  ELSE LET least == CHOOSE e \in entries :
                      \A o \in entries \ {e} : BytesLess(encodeKey(e.key), encodeKey(o.key))
       IN  <<least>> \o EngineSort(entries \ {least})

\* A selector is [start, end, prefix]: keys, end and prefix optional.
\* {start, end} selects start <= key < end.  {prefix, start} selects the keys
\* that extend prefix by at least one part and are >= start.
SelectorByEnd(start, end) == [start |-> start, end |-> Some(end), prefix |-> Null]
SelectorByPrefix(start, prefix) == [start |-> start, end |-> Null, prefix |-> Some(prefix)]

EngineLower(selector) == encodeKey(selector.start)
EngineUpper(selector) ==
  IF IsNull(selector.prefix) THEN encodeKey(selector.end[1])
  ELSE encodeKey(selector.prefix[1]) \o <<255>>

\* list rejects a start key outside the prefix's keyspace and a limit that
\* is not positive.
EngineListOk(selector, options) ==
  /\ IsNull(selector.prefix)
       \/ IsPrefixOf(encodeKey(selector.prefix[1]), encodeKey(selector.start))
  /\ IsNull(options.limit) \/ options.limit[1] > 0

EngineSelect(st, selector) ==
  {e \in st : /\ ~BytesLess(encodeKey(e.key), EngineLower(selector))
              /\ BytesLess(encodeKey(e.key), EngineUpper(selector))}

\* The whole result of list over one store: ascending, or descending with
\* reverse, cut at limit.
EngineList(st, selector, options) ==
  LET asc == EngineSort(EngineSelect(st, selector))
      all == IF IsNull(options.reverse) THEN asc ELSE Reverse(asc)
  IN  IF IsNull(options.limit) \/ options.limit[1] >= Len(all) THEN all
      ELSE SubSeq(all, 1, options.limit[1])

\* An entry as the engine hands it out: the versionstamp is optional (a key
\* with no entry has none).
EngineEntry(e) == [key |-> e.key, value |-> e.value, versionstamp |-> Some(e.versionstamp)]

\* The entry the list iterator yields after `yielded` entries, the last of
\* them with encoded key `cursor` (null before the first): the next entry in
\* iteration order beyond the cursor, or null at the end or at the limit.
EngineListNext(st, selector, options, yielded, cursor) ==
  LET beyond == {e \in EngineSelect(st, selector) :
                  \/ IsNull(cursor)
                  \/ IF IsNull(options.reverse)
                       THEN BytesLess(cursor[1], encodeKey(e.key))
                       ELSE BytesLess(encodeKey(e.key), cursor[1])}
  IN  IF beyond = {} \/ (~IsNull(options.limit) /\ yielded >= options.limit[1])
        THEN Null
        ELSE Some(EngineEntry(CHOOSE e \in beyond : \A o \in beyond \ {e} :
                    IF IsNull(options.reverse)
                      THEN BytesLess(encodeKey(e.key), encodeKey(o.key))
                      ELSE BytesLess(encodeKey(o.key), encodeKey(e.key))))

\* ------------------------------------------ datapath.proto.ts (encoders)
encodeKvEntry(msg) ==
  (IF Len(msg.key) # 0 THEN <<PbBytes(1, encodePbBytes(msg.key))>> ELSE <<>>)
  \o (IF Len(msg.value) # 0 THEN <<PbBytes(2, encodePbBytes(msg.value))>> ELSE <<>>)
  \o (IF msg.encoding # 0 THEN <<PbVarint(3, encodePbInt32(msg.encoding))>> ELSE <<>>)
  \o (IF Len(msg.versionstamp) # 0
        THEN <<PbBytes(4, encodePbBytes(msg.versionstamp))>> ELSE <<>>)

encodeReadRangeOutputValue(value) == PbMsg(1, encodeKvEntry(value))

encodeReadRangeOutput(msg) == SeqMap(encodeReadRangeOutputValue, msg.values)

encodeSnapshotReadOutputRange(value) == PbMsg(1, encodeReadRangeOutput(value))

encodeSnapshotReadOutput(msg) ==
  SeqMap(encodeSnapshotReadOutputRange, msg.ranges)
  \o (IF msg.read_disabled THEN <<PbVarint(2, encodePbBool(msg.read_disabled))>> ELSE <<>>)
  \o (IF msg.read_is_strongly_consistent
        THEN <<PbVarint(4, encodePbBool(msg.read_is_strongly_consistent))>> ELSE <<>>)
  \o (IF msg.status # 0 THEN <<PbVarint(8, encodePbInt32(msg.status))>> ELSE <<>>)

encodeWatchKeyOutput(msg) ==
  (IF msg.changed THEN <<PbVarint(1, encodePbBool(msg.changed))>> ELSE <<>>)
  \o (IF ~IsNull(msg.entry_if_changed)
        THEN <<PbMsg(2, encodeKvEntry(msg.entry_if_changed[1]))>> ELSE <<>>)

encodeWatchOutput(msg) ==
  (IF msg.status # 0 THEN <<PbVarint(1, encodePbInt32(msg.status))>> ELSE <<>>)
  \o [i \in 1..Len(msg.keys) |-> PbMsg(2, encodeWatchKeyOutput(msg.keys[i]))]

\* encodeAtomicWriteOutput writing the status whatever it is.
encodeAtomicWriteOutput_AlwaysStatus(msg) ==
  <<PbVarint(1, encodePbInt32(msg.status))>>
  \o (IF Len(msg.versionstamp) # 0
        THEN <<PbBytes(2, encodePbBytes(msg.versionstamp))>> ELSE <<>>)
  \o (IF Len(msg.failed_checks) # 0 THEN <<PbPacked(4, msg.failed_checks)>> ELSE <<>>)

encodeAtomicWriteOutput(msg) ==
  (IF msg.status # 0 THEN <<PbVarint(1, encodePbInt32(msg.status))>> ELSE <<>>)
  \o (IF Len(msg.versionstamp) # 0
        THEN <<PbBytes(2, encodePbBytes(msg.versionstamp))>> ELSE <<>>)
  \o (IF Len(msg.failed_checks) # 0 THEN <<PbPacked(4, msg.failed_checks)>> ELSE <<>>)

\* ---------------------------------------------------------------- main.ts
\* Header values and tokens are sequences of characters.
Bearer == <<"B", "e", "a", "r", "e", "r", " ">>
accessToken == <<"a", "t">>
UUIDs == {<<"u", "1">>, <<"u", "2">>}
ephemeralTokenTtl == 2

\* getToken: the text after "Bearer ", or null.
getToken(authorization) ==
  IF IsNull(authorization) \/ ~IsPrefixOf(Bearer, authorization[1]) THEN Null
  ELSE Some(SubSeq(authorization[1], Len(Bearer) + 1, Len(authorization[1])))

\* A response: status, the allow and www-authenticate headers ("" when not
\* set), the JSON body of the bootstrap endpoint (optional) and the records
\* of a datapath body.
Response(status, body) ==
  [status |-> status, allow |-> "", wwwAuthenticate |-> "", json |-> Null, body |-> body]

\* methodNotAllowed without its allow header.
methodNotAllowed_NoAllow == Response(405, <<>>)

methodNotAllowed == [Response(405, <<>>) EXCEPT !.allow = "POST"]
badRequest == Response(400, <<>>)
unauthorized == [Response(401, <<>>) EXCEPT !.wwwAuthenticate = "Bearer"]
notFound == Response(404, <<>>)

VARIABLES
  now,              \* the clock (Date.now(), timer time), in ms
  ephemeralTokens,  \* the live ephemeral tokens
  timers,           \* pending expiry timers: [token, deadline]
  issued,           \* per token, the expiresAt of the last bootstrap response
                    \* that carried it (null: never issued)
  req,              \* the request last received (null: none yet)
  resp,             \* its response (null: not sent yet)
  engineCalls,      \* the engine calls made for req: "list", "commit", "watch"
  tx,               \* the operations attached to the transaction built for req
  committed,        \* what commit gave for req: [outcome, versionstamp], or null
  store,            \* the engine's entries
  vsCounter,        \* the engine's commits so far
  queue,            \* the engine's queue
  tasks,            \* the range tasks of the snapshotRead in progress
  doneOrder,        \* the range tasks in the order they completed
  streams,          \* the watch streams, by the number of the connection
  server,           \* the HTTP server and the SIGINT listener
  call              \* a codec function applied to an input, and its result

vars == <<now, ephemeralTokens, timers, issued, req, resp, engineCalls, tx,
          committed, store, vsCounter, queue, tasks, doneOrder, streams, server,
          call>>

authVars == <<ephemeralTokens, timers, issued>>
engineVars == <<store, vsCounter, queue>>

\* isEphemeralTokenValid taking the access token for a live token as well.
isEphemeralTokenValid_AccessToken(token) ==
  ~IsNull(token) /\ (token[1] \in ephemeralTokens \/ token[1] = accessToken)

isEphemeralTokenValid(token) == ~IsNull(token) /\ token[1] \in ephemeralTokens

Request(path, method, authorization, body) ==
  [path |-> path, method |-> method, authorization |-> authorization,
   body |-> body, receivedAt |-> now]

\* Deno.serve: the server takes requests from its start until shutdown is
\* called; it then lets the requests in flight finish and is finished.  The
\* SIGINT listener is registered from the start.
serverStarted == [state |-> "serving", sigint |-> TRUE]

\* The server takes a request: it is serving, and the one before is answered.
Idle == server.state = "serving" /\ (IsNull(req) \/ ~IsNull(resp))

\* datapathGate with the token checked before the method.
datapathGate_TokenFirst(method, authorization) ==
  IF ~isEphemeralTokenValid(getToken(authorization)) THEN Some(unauthorized)
  ELSE IF method # "POST" THEN Some(methodNotAllowed)
  ELSE Null

\* The checks every datapath case starts with: the method, then the token.
\* Null when the request is admitted, else the response.
datapathGate(method, authorization) ==
  IF method # "POST" THEN Some(methodNotAllowed)
  ELSE IF ~isEphemeralTokenValid(getToken(authorization)) THEN Some(unauthorized)
  ELSE Null

\* The do-while loop left out: any UUID is taken.
freshToken_NoRetry(uuid) == TRUE

\* do { ... } while (ephemeralTokens.has(ephemeralToken)): the UUID that is
\* taken is none of the live tokens.
freshToken(uuid) == uuid \notin ephemeralTokens

\* case "/": a POST with the access token adds a fresh UUID to the live set,
\* schedules its removal after the TTL and returns it with its expiry time.
Bootstrap(method, authorization, uuid) ==
  /\ Idle
  /\ req' = Some(Request("/", method, authorization, <<>>))
  /\ engineCalls' = <<>>
  /\ tx' = <<>>
  /\ committed' = Null
  /\ tasks' = <<>>
  /\ doneOrder' = <<>>
  /\ UNCHANGED <<now, server, streams, call, engineVars>>
  /\ IF method # "POST"
       THEN resp' = Some(methodNotAllowed) /\ UNCHANGED authVars
     ELSE IF getToken(authorization) # Some(accessToken)
       THEN resp' = Some(unauthorized) /\ UNCHANGED authVars
     ELSE /\ freshToken(uuid)
          /\ ephemeralTokens' = ephemeralTokens \cup {uuid}
          /\ timers' = timers \cup {[token |-> uuid, deadline |-> now + ephemeralTokenTtl]}
          /\ issued' = [issued EXCEPT ![uuid] = Some(now + ephemeralTokenTtl)]
          /\ resp' = Some([Response(200, <<>>) EXCEPT
                             !.json = Some([version |-> 1, token |-> uuid,
                                            expiresAt |-> now + ephemeralTokenTtl])])

\* The setTimeout callback: it runs once, at some time not before its delay
\* has passed, and deletes its token.
TimerFire(timer) ==
  /\ timer \in timers
  /\ now >= timer.deadline
  /\ timers' = timers \ {timer}
  /\ ephemeralTokens' = ephemeralTokens \ {timer.token}
  /\ UNCHANGED <<now, server, streams, call, issued, req, resp, engineCalls, tx, committed, engineVars, tasks, doneOrder>>

\* Time passes.
Tick ==
  /\ now < MaxTime
  /\ now' = now + 1
  /\ UNCHANGED <<server, streams, call, authVars, req, resp, engineCalls, tx, committed, engineVars, tasks, doneOrder>>

\* --------------------------------------------------- mod.ts: atomicWrite
\* atomicWriteOutput with the catch block of the commit left empty.
atomicWriteOutput_NoCatch(result) ==
  [status |-> IF result.outcome = "check" THEN AW_CHECK_FAILURE ELSE AW_SUCCESS,
   versionstamp |-> IF result.outcome = "ok" /\ decodeHexOk(result.versionstamp)
                      THEN decodeHex(result.versionstamp) ELSE <<>>,
   failed_checks |-> <<>>]

\* The response message for a commit outcome.
atomicWriteOutput(result) ==
  [status |-> CASE result.outcome = "ok" /\ decodeHexOk(result.versionstamp) -> AW_SUCCESS
                [] result.outcome = "check" -> AW_CHECK_FAILURE
                [] OTHER -> AW_UNSPECIFIED,
   versionstamp |-> IF result.outcome = "ok" /\ decodeHexOk(result.versionstamp)
                      THEN decodeHex(result.versionstamp) ELSE <<>>,
   failed_checks |-> <<>>]

\* The rest of atomicWrite once the transaction `ops` is built: commit, and
\* the 200 with the outcome `result`.
atomicWriteCommit(ops, result) ==
  /\ tx' = ops
  /\ engineCalls' = <<"commit">>
  /\ committed' = Some([outcome |-> result.outcome, versionstamp |-> result.versionstamp])
  /\ store' = result.st
  /\ queue' = result.queue
  /\ vsCounter' = IF result.outcome = "ok" THEN vsCounter + 1 ELSE vsCounter
  /\ resp' = Some(Response(200, encodeAtomicWriteOutput(atomicWriteOutput(result))))

\* The exception of decodeAtomicWrite or of the build, caught by the handler.
atomicWriteThrows ==
  /\ resp' = Some(badRequest)
  /\ engineCalls' = <<>>
  /\ tx' = <<>>
  /\ committed' = Null
  /\ UNCHANGED engineVars

\* atomicWrite from the built transaction `op` ([ok, ops]) on.
atomicWriteBuilt(op, fault) ==
  IF ~op.ok THEN atomicWriteThrows
  ELSE atomicWriteCommit(op.ops, EngineCommit(store, queue, vsCounter, op.ops, fault))

\* atomicWrite from the decoded request `msg` on.
atomicWriteDecoded(msg, fault) ==
  IF ~msg.ok THEN atomicWriteThrows
  ELSE atomicWriteBuilt(buildAtomic(msg, now), fault)

\* case "/kv/atomic_write": the gate; then KvRelay.atomicWrite: decode, build
\* the transaction (an exception in either is a 400 and nothing is
\* committed), commit, and answer 200 with the outcome.  `fault` is whether
\* the engine fails this commit (decodeHex of the commit versionstamp is
\* inside the try as well: its TypeError would also be AW_UNSPECIFIED).
AtomicWrite(method, authorization, body, fault) ==
  /\ Idle
  /\ req' = Some(Request("/kv/atomic_write", method, authorization, body))
  /\ tasks' = <<>>
  /\ doneOrder' = <<>>
  /\ UNCHANGED <<now, server, streams, call, authVars>>
  /\ IF ~IsNull(datapathGate(method, authorization))
       THEN /\ resp' = datapathGate(method, authorization)
            /\ engineCalls' = <<>>
            /\ tx' = <<>>
            /\ committed' = Null
            /\ UNCHANGED engineVars
       ELSE atomicWriteDecoded(decodeAtomicWrite(body), fault)

\* -------------------------------------------------- mod.ts: snapshotRead
listOptions(range) ==
  [limit |-> IF range.limit # 0 THEN Some(range.limit) ELSE Null,
   reverse |-> IF range.reverse THEN Some(range.reverse) ELSE Null]

\* An `after` endpoint becomes the exact key with an empty bytes part added.
promote(rangeKey) ==
  IF rangeKey.mode = 1
    THEN [rangeKey EXCEPT !.key = Append(@, BytesPart(<<>>)), !.mode = 0]
    ELSE rangeKey

listSelector(start, end) ==
  IF end.mode = 0 THEN SelectorByEnd(start.key, end.key)
  ELSE SelectorByPrefix(start.key, end.key)

\* The part of a range's async callback that runs before its first await:
\* both endpoints are decoded, a start in mode before is refused, the
\* selector and options are built and kv.list is called.  A task is
\* [state, listed, selector, options, values].
noSelector == SelectorByEnd(<<>>, <<>>)
noOptions == [limit |-> Null, reverse |-> Null]

rejectedTask ==
  [state |-> "rejected", listed |-> FALSE, selector |-> noSelector,
   options |-> noOptions, values |-> <<>>]

\* The task of a kv.list(selector, options) call.
listTask(selector, options) ==
  [state |-> IF EngineListOk(selector, options) THEN "iterating" ELSE "rejected",
   listed |-> TRUE, selector |-> selector, options |-> options, values |-> <<>>]

\* rangeTaskAt without the test of the start's mode.
rangeTaskAt_NoModeCheck(start, end, range) ==
  IF ~start.ok \/ ~end.ok THEN rejectedTask
  ELSE listTask(listSelector(promote(start), promote(end)), listOptions(range))

\* The task of a range whose endpoints decoded to start and end.
rangeTaskAt(start, end, range) ==
  IF ~start.ok \/ ~end.ok THEN rejectedTask
  ELSE IF start.mode = -1 THEN rejectedTask
  ELSE listTask(listSelector(promote(start), promote(end)), listOptions(range))

rangeTask(range) ==
  rangeTaskAt(decodeRangeKey(range.start), decodeRangeKey(range.end), range)

\* allRanges with the results in the order the tasks completed.
allRanges_CompletionOrder(ts, order) ==
  [i \in 1..Len(ts) |-> [values |-> ts[order[i]].values]]

\* Promise.all over the range tasks: the results by position.
allRanges(ts, order) == [i \in 1..Len(ts) |-> [values |-> ts[i].values]]

snapshotReadOutput(ts, order) ==
  [ranges |-> allRanges(ts, order),
   read_disabled |-> FALSE,
   read_is_strongly_consistent |-> TRUE,
   status |-> SR_SUCCESS]

\* case "/kv/snapshot_read": the gate; then KvRelay.snapshotRead up to the
\* await of Promise.all: the request is decoded and every range's callback
\* runs, in request order, up to its first await.  With no range at all
\* Promise.all is already fulfilled.
snapshotReadDecoded(msg) ==
  IF ~msg.ok
    THEN resp' = Some(badRequest) /\ tasks' = <<>> /\ engineCalls' = <<>>
    ELSE /\ tasks' = SeqMap(rangeTask, msg.ranges)
         /\ engineCalls' = SeqMap(LAMBDA t : "list", SelectSeq(tasks', LAMBDA t : t.listed))
         /\ resp' = Null

SnapshotReadStart(method, authorization, body) ==
  /\ Idle
  /\ req' = Some(Request("/kv/snapshot_read", method, authorization, body))
  /\ tx' = <<>>
  /\ committed' = Null
  /\ doneOrder' = <<>>
  /\ UNCHANGED <<now, server, streams, call, authVars, engineVars>>
  /\ IF ~IsNull(datapathGate(method, authorization))
       THEN /\ resp' = datapathGate(method, authorization)
            /\ tasks' = <<>>
            /\ engineCalls' = <<>>
       ELSE snapshotReadDecoded(decodeSnapshotRead(body))

\* One turn of a range's `for await` loop: the iterator yields the next
\* entry, which is serialized and pushed, or ends, which completes the task.
RangeYields(i, next) ==
  IF IsNull(next)
    THEN /\ tasks' = [tasks EXCEPT ![i].state = "done"]
         /\ doneOrder' = Append(doneOrder, i)
    ELSE /\ tasks' = [tasks EXCEPT ![i].values = Append(@, serializeEntry(next[1]))]
         /\ UNCHANGED doneOrder

\* The encoded key of the last entry a task was given (null: none yet).
taskCursor(t) == IF t.values = <<>> THEN Null ELSE Some(t.values[Len(t.values)].key)

RangeNext(i) ==
  /\ i \in 1..Len(tasks)
  /\ tasks[i].state = "iterating"
  /\ \E next \in {EngineListNext(store, tasks[i].selector, tasks[i].options,
                                  Len(tasks[i].values), taskCursor(tasks[i]))} :
       RangeYields(i, next)
  /\ UNCHANGED <<now, server, streams, call, authVars, req, resp, engineCalls, tx, committed, engineVars>>

\* The engine fails a list iterator: the `for await` throws.
ListFault(i) ==
  /\ i \in 1..Len(tasks)
  /\ tasks[i].state = "iterating"
  /\ tasks' = [tasks EXCEPT ![i].state = "rejected"]
  /\ UNCHANGED <<now, server, streams, call, authVars, req, resp, engineCalls, tx, committed, engineVars, doneOrder>>

\* Promise.all settles: rejected as soon as one task is, which the handler
\* answers with 400; fulfilled when every task is done, and the output
\* message is encoded into a 200.
SnapshotReadRespond ==
  /\ ~IsNull(req)
  /\ IsNull(resp)
  /\ req[1].path = "/kv/snapshot_read"
  /\ \/ /\ \E i \in 1..Len(tasks) : tasks[i].state = "rejected"
        /\ resp' = Some(badRequest)
     \/ /\ \A i \in 1..Len(tasks) : tasks[i].state = "done"
        /\ resp' = Some(Response(200,
                     encodeSnapshotReadOutput(snapshotReadOutput(tasks, doneOrder))))
  /\ UNCHANGED <<now, server, streams, call, authVars, req, engineCalls, tx, committed, engineVars, tasks, doneOrder>>

\* ---------------------------------------------------------- mod.ts: watch
\* A watch stream is [state, keys, batches, framed, outbox, sent, client,
\* watch]: state "none" (no such connection yet), "open" (the response has
\* been returned), "streaming" (a frame has been produced) or "closed"; keys
\* the watched keys; batches the update batches read from the engine's
\* stream; framed how many of them the transform has handled; outbox the
\* chunks enqueued on the response body and not yet written to the client;
\* sent the bytes written to the client; client "connected" or "gone"; watch
\* the engine watch: "none", "active", "cancelled" or "errored".
noStream ==
  [state |-> "none", keys |-> <<>>, batches |-> <<>>, framed |-> 0,
   outbox |-> <<>>, sent |-> <<>>, client |-> "connected", watch |-> "none"]

\* The update batch of the engine watch: for every watched key, in order, its
\* entry, or the key with a null value and a null versionstamp.
EngineWatchEntry(st, key) ==
  IF EngineGet(st, key) = {}
    THEN [key |-> key, value |-> JsBytes(<<>>), versionstamp |-> Null]
    ELSE EngineEntry(CHOOSE e \in EngineGet(st, key) : TRUE)

EngineWatchBatch(st, keys) == [i \in 1..Len(keys) |-> EngineWatchEntry(st, keys[i])]

\* setUint32(0, n, true): the 4 little-endian bytes of n.
setUint32LE(n) ==
  <<n % 256, (n \div 256) % 256, (n \div 65536) % 256, (n \div 16777216) % 256>>

\* watchKeyOutput with changed telling whether the key has an entry.
watchKeyOutput_ChangedIfEntry(entry) ==
  [changed |-> ~IsNull(entry.versionstamp),
   entry_if_changed |-> IF IsNull(entry.versionstamp) THEN Null
                        ELSE Some(serializeEntry(entry))]

\* The WatchKeyOutput of one entry of a batch.
watchKeyOutput(entry) ==
  [changed |-> TRUE,
   entry_if_changed |-> IF IsNull(entry.versionstamp) THEN Null
                        ELSE Some(serializeEntry(entry))]

\* The message of one batch.
watchMessage(chunk) ==
  writePbRecords(encodeWatchOutput(
    [status |-> SR_SUCCESS,
     keys |-> [i \in 1..Len(chunk) |-> watchKeyOutput(chunk[i])]]))

frameOf(message) == <<setUint32LE(Len(message)), message>>

\* transform with a header that counts its own 4 bytes as well.
frameOf_HeaderCountsItself(message) == <<setUint32LE(Len(message) + 4), message>>

transform_HeaderCountsItself(chunk) == frameOf_HeaderCountsItself(watchMessage(chunk))

\* transform: the chunks enqueued for one batch, the header and the message.
transform(chunk) == frameOf(watchMessage(chunk))

\* freshStream for a relay that hands out the stream of a connection again.
freshStream_Any(s) == s \in DOMAIN streams

\* kv.watch(keys).pipeThrough(new TransformStream(...)): a stream of its own
\* for every call.
freshStream(s) == streams[s].state = "none"

newStream(keys) == [noStream EXCEPT !.state = "open", !.keys = keys, !.watch = "active"]

\* case "/kv/watch": the gate; then KvRelay.watch: the request and its keys
\* are decoded (an exception is a 400) and kv.watch is called; its stream,
\* piped through the transform, is the body of the 200.  `s` numbers the
\* connection.
watchDecoded(msg, keys, s) ==
  IF ~msg.ok \/ ~keys.ok
    THEN resp' = Some(badRequest) /\ engineCalls' = <<>> /\ UNCHANGED streams
    ELSE /\ freshStream(s)
         /\ resp' = Some(Response(200, <<>>))
         /\ engineCalls' = <<"watch">>
         /\ streams' = [streams EXCEPT ![s] = newStream(keys.keys)]

watchKeys(msg) == decodeKeys([i \in 1..Len(msg.keys) |-> msg.keys[i].key])

watchRequest(msg, s) == watchDecoded(msg, watchKeys(msg), s)

Watch(method, authorization, body, s) ==
  /\ Idle
  /\ req' = Some(Request("/kv/watch", method, authorization, body))
  /\ tx' = <<>>
  /\ committed' = Null
  /\ tasks' = <<>>
  /\ doneOrder' = <<>>
  /\ UNCHANGED <<now, server, call, authVars, engineVars>>
  /\ IF ~IsNull(datapathGate(method, authorization))
       THEN /\ resp' = datapathGate(method, authorization)
            /\ engineCalls' = <<>>
            /\ UNCHANGED streams
       ELSE watchRequest(decodeWatch(body), s)

\* streamLive for a relay that ends a response body with the last live token.
streamLive_WhileTokenLive(s) ==
  streams[s].state \in {"open", "streaming"} /\ ephemeralTokens # {}

\* The response body of connection s has not ended.
streamLive(s) == streams[s].state \in {"open", "streaming"}

streamFrame == <<now, server, call, authVars, req, resp, engineCalls, tx, committed,
                 engineVars, tasks, doneOrder>>

\* The batches the engine has yielded on the connections up to number n.
RECURSIVE batchCount(_)
batchCount(n) == IF n = 0 THEN 0 ELSE Len(streams[n].batches) + batchCount(n - 1)

\* The engine's stream yields a batch and the pipe reads it (the engine
\* yields MaxBatches batches in all).
EngineYield(s) ==
  /\ streamLive(s)
  /\ streams[s].watch = "active"
  /\ batchCount(MaxStreams) < MaxBatches
  /\ streams' = [streams EXCEPT
                   ![s].batches = Append(@, EngineWatchBatch(store, streams[s].keys))]
  /\ UNCHANGED streamFrame

\* nextChunks for a pipe that hands the transform the newest batch.
nextChunks_Newest(stream) == transform(stream.batches[Len(stream.batches)])

\* The chunks the transform enqueues for the next batch it is handed.
nextChunks(stream) == transform(stream.batches[stream.framed + 1])

\* backpressure for a TransformStream that never holds the transform back.
backpressure_Never(stream) == FALSE

\* The backpressure of new TransformStream({transform}): its readable side
\* has the default high-water mark 0, so the stream asks for a chunk only for
\* a read that finds nothing enqueued, and the transform waits for that.
backpressure(stream) == stream.outbox # <<>>

\* The transform runs on the oldest batch it has not handled, once nothing
\* it enqueued before is left unread.
Transform(s) ==
  /\ streamLive(s)
  /\ streams[s].framed < Len(streams[s].batches)
  /\ ~backpressure(streams[s])
  /\ streams' = [streams EXCEPT ![s].outbox = @ \o nextChunks(streams[s]),
                                ![s].framed = @ + 1,
                                ![s].state = "streaming"]
  /\ UNCHANGED streamFrame

\* The server writes the oldest enqueued chunk to the client.
Flush(s) ==
  /\ streamLive(s)
  /\ streams[s].client = "connected"
  /\ streams[s].outbox # <<>>
  /\ streams' = [streams EXCEPT ![s].sent = @ \o Head(streams[s].outbox),
                                ![s].outbox = Tail(@)]
  /\ UNCHANGED streamFrame

\* The client goes away.
ClientDisconnect(s) ==
  /\ streamLive(s)
  /\ streams[s].client = "connected"
  /\ streams' = [streams EXCEPT ![s].client = "gone"]
  /\ UNCHANGED streamFrame

\* pipeCancel for a relay whose streams share one engine watch.
pipeCancel_SharedWatch(s) ==
  [t \in DOMAIN streams |->
     IF t = s
       THEN [streams[t] EXCEPT !.state = "closed", !.outbox = <<>>,
                               !.watch = IF @ = "active" THEN "cancelled" ELSE @]
       ELSE [streams[t] EXCEPT !.watch = IF @ = "active" THEN "cancelled" ELSE @]]

\* What cancelling the body of connection s makes of the streams: pipeThrough
\* hands the cancel on to the engine's stream of that connection.
pipeCancel(s) ==
  [streams EXCEPT ![s].state = "closed",
                  ![s].outbox = <<>>,
                  ![s].watch = IF @ = "active" THEN "cancelled" ELSE @]

\* The server cancels the body of the response whose client is gone.
CancelWatch(s) ==
  /\ streamLive(s)
  /\ streams[s].client = "gone"
  /\ streams' = pipeCancel(s)
  /\ UNCHANGED streamFrame

\* The engine's stream fails.
EngineError(s) ==
  /\ streamLive(s)
  /\ streams[s].watch = "active"
  /\ streams' = [streams EXCEPT ![s].watch = "errored"]
  /\ UNCHANGED streamFrame

\* The pipe hands the error on once the batches it has read are handled: the
\* body ends, and what was enqueued and not yet written is dropped.
StreamError(s) ==
  /\ streamLive(s)
  /\ streams[s].watch = "errored"
  /\ streams[s].framed = Len(streams[s].batches)
  /\ streams' = [streams EXCEPT ![s].state = "closed", ![s].outbox = <<>>]
  /\ UNCHANGED streamFrame

\* default: any other path.
NotFound(path, method, authorization) ==
  /\ Idle
  /\ req' = Some(Request(path, method, authorization, <<>>))
  /\ resp' = Some(notFound)
  /\ engineCalls' = <<>>
  /\ tx' = <<>>
  /\ committed' = Null
  /\ tasks' = <<>>
  /\ doneOrder' = <<>>
  /\ UNCHANGED <<now, server, streams, call, authVars, engineVars>>

\* ----------------------------------------- interrupt_signal.ts, shutdown
\* HttpServer.shutdown(): a serving server stops taking requests; the
\* requests in flight go on.
shutdown(srv) ==
  IF srv.state = "serving" THEN [srv EXCEPT !.state = "closing"] ELSE srv

\* An abort listener that leaves the server as it is.
onAbort_Nothing(srv) == srv

\* onAbort, the abort listener of the signal.
onAbort(srv) == shutdown(srv)

\* SIGINT reaches the listener `abort`: it removes itself and aborts the
\* controller, whose signal runs onAbort.  A later SIGINT finds no listener.
Interrupt ==
  /\ server.sigint
  /\ server' = onAbort([server EXCEPT !.sigint = FALSE])
  /\ UNCHANGED <<now, streams, call, authVars, req, resp, engineCalls, tx,
                 committed, engineVars, tasks, doneOrder>>

\* No request is waiting for its response and no response body is open.
Drained ==
  /\ IsNull(req) \/ ~IsNull(resp)
  /\ \A s \in 1..MaxStreams : ~streamLive(s)

\* server.finished resolves: the server was shut down and has drained.
ServerFinished ==
  /\ server.state = "closing"
  /\ Drained
  /\ server' = [server EXCEPT !.state = "finished"]
  /\ UNCHANGED <<now, streams, call, authVars, req, resp, engineCalls, tx,
                 committed, engineVars, tasks, doneOrder>>

\* ----------------------------------------------------------- the inputs
POST == "POST"
Methods == {"POST", "GET"}
Token1 == <<"u", "1">>
Basic == <<"B", "a", "s", "i", "c", " ">>
Authorizations ==
  {Null, Some(Basic \o Token1), Some(Bearer \o accessToken)}
    \cup {Some(Bearer \o u) : u \in UUIDs}

\* All sequences over S of length at most n.
RECURSIVE SeqsUpTo(_, _)
SeqsUpTo(S, n) ==
  IF n = 0 THEN {<<>>}
  ELSE LET shorter == SeqsUpTo(S, n - 1)
       IN  shorter \cup {Append(q, x) : q \in {t \in shorter : Len(t) = n - 1}, x \in S}

KeyA == <<StringPart(<<97>>)>>
KeyA1 == <<StringPart(<<97>>), IntPart(FALSE, <<1>>)>>
KeyB == <<StringPart(<<98>>)>>
KeyT == <<BoolPart(TRUE)>>
KeyT0 == <<BoolPart(TRUE), IntPart(FALSE, <<>>)>>

LE64Five == <<5, 0, 0, 0, 0, 0, 0, 0>>
KvValueMsg(data, encoding) == <<PbBytes(1, data), PbVarint(2, Raw(encoding))>>

\* The engine before any commit, and after a first commit that set two keys.
EmptyStore == {}
SeededStore ==
  {[key |-> KeyA, value |-> JsBytes(<<49>>), versionstamp |-> EngineVersionstamp(1)],
   [key |-> KeyT, value |-> JsU64(<<0, 0, 0, 0, 0, 0, 0, 5>>),
    versionstamp |-> EngineVersionstamp(1)]}

\* The records an AtomicWrite body is made of in SpecWrite: checks that
\* expect no entry (no versionstamp, an all-zero one) or the seeded entry.
GoodCheckRecords ==
  {PbMsg(1, <<PbBytes(1, encodeKey(KeyA))>>),
   PbMsg(1, <<PbBytes(1, encodeKey(KeyA)), PbBytes(2, Zeros(VsBytes))>>),
   PbMsg(1, <<PbBytes(1, encodeKey(KeyA)),
              PbBytes(2, decodeHex(EngineVersionstamp(1)))>>)}

\* A check whose key is cut short.
BadCheckRecords == {PbMsg(1, <<PbBytes(1, <<2, 97>>)>>)}

GoodMutationRecords ==
  {PbMsg(2, <<PbBytes(1, encodeKey(KeyA)), PbMsg(2, KvValueMsg(<<104>>, VE_BYTES)),
              PbVarint(3, Raw(M_SET)), PbVarint(4, Raw(7))>>),
   PbMsg(2, <<PbBytes(1, encodeKey(KeyA)), PbVarint(3, Raw(M_DELETE))>>),
   PbMsg(2, <<PbBytes(1, encodeKey(KeyT)), PbMsg(2, KvValueMsg(LE64Five, VE_LE64)),
              PbVarint(3, Raw(M_SUM))>>),
   PbMsg(2, <<PbBytes(1, encodeKey(KeyB)),
              PbMsg(2, KvValueMsg(serialize(JsObject(1)), VE_V8)),
              PbVarint(3, Raw(M_SET_SUFFIX_VERSIONSTAMPED_KEY))>>)}

\* A SUM whose value is no counter, a mutation type that does not exist, and
\* a SET without a value.
BadMutationRecords ==
  {PbMsg(2, <<PbBytes(1, encodeKey(KeyT)), PbMsg(2, KvValueMsg(LE64Five, VE_BYTES)),
              PbVarint(3, Raw(M_SUM))>>),
   PbMsg(2, <<PbBytes(1, encodeKey(KeyA)), PbMsg(2, KvValueMsg(<<104>>, VE_BYTES)),
              PbVarint(3, Raw(7))>>),
   PbMsg(2, <<PbBytes(1, encodeKey(KeyA)), PbVarint(3, Raw(M_SET))>>)}

EnqueueRecords ==
  {PbMsg(3, <<PbBytes(1, serialize(JsObject(2))), PbBytes(3, encodeKey(KeyA))>>)}

\* A field of the message with the wrong wire type, and a field it lacks.
MismatchRecords == {PbVarint(1, Raw(1))}
SkippedRecords == {PbVarint(9, Raw(1))}

BadWriteRecords == BadCheckRecords \cup BadMutationRecords \cup MismatchRecords

WriteRecords ==
  GoodCheckRecords \cup GoodMutationRecords \cup EnqueueRecords \cup SkippedRecords
    \cup BadWriteRecords

WriteBodies == SeqsUpTo(WriteRecords, MaxRecords)

\* The ranges a SnapshotRead body is made of in SpecRead.
ReadRangeMsg(start, end, limit, reverse) ==
  <<PbBytes(1, start), PbBytes(2, end)>>
    \o (IF limit # Raw(0) THEN <<PbVarint(3, limit)>> ELSE <<>>)
    \o (IF reverse THEN <<PbVarint(4, Raw(1))>> ELSE <<>>)

RangeRecord(start, end, limit, reverse) == PbMsg(1, ReadRangeMsg(start, end, limit, reverse))

\* The range a client sends to list the keys under prefix p: from p in mode
\* after (p's encoding and 0x00) to p in mode before (p's encoding and 0xFF).
PrefixRange(p) ==
  RangeRecord(encodeKey(p) \o <<0>>, encodeKey(p) \o <<255>>, Raw(0), FALSE)

Prefixes == {<<>>, KeyT, KeyA}
PrefixRecords == {PrefixRange(p) : p \in Prefixes}

\* A range whose start is in mode before.
StartBeforeRecords == {RangeRecord(encodeKey(KeyT) \o <<255>>, <<255>>, Raw(0), FALSE)}

\* Two exact endpoints.
ExactRecords == {RangeRecord(encodeKey(KeyA), encodeKey(KeyT0), Raw(0), FALSE)}

\* Every key, with a limit (1; 2 in reverse; the varint ff ff ff ff 0f).
LimitRecords ==
  {RangeRecord(<<0>>, <<255>>, Raw(1), FALSE),
   RangeRecord(<<0>>, <<255>>, Raw(2), TRUE),
   RangeRecord(<<0>>, <<255>>, RawMinusOne32, FALSE)}

ReadRecords ==
  PrefixRecords \cup StartBeforeRecords \cup ExactRecords \cup LimitRecords
    \cup MismatchRecords

ReadBodies == SeqsUpTo(ReadRecords, MaxRanges)

ReadStore ==
  {[key |-> KeyA, value |-> JsBytes(<<49>>), versionstamp |-> EngineVersionstamp(1)],
   [key |-> KeyA1, value |-> JsBytes(<<104, 105>>), versionstamp |-> EngineVersionstamp(1)],
   [key |-> KeyT0, value |-> JsU64(<<0, 0, 0, 0, 0, 0, 0, 5>>),
    versionstamp |-> EngineVersionstamp(1)]}

\* ------------------------------------------------------- specifications
\* The state after one bootstrap at time 0: Token1 is live.
AdmittedInit(st, n) ==
  /\ now = 0
  /\ ephemeralTokens = {Token1}
  /\ timers = {[token |-> Token1, deadline |-> ephemeralTokenTtl]}
  /\ issued = [u \in UUIDs |-> IF u = Token1 THEN Some(ephemeralTokenTtl) ELSE Null]
  /\ req = Null
  /\ resp = Null
  /\ engineCalls = <<>>
  /\ tx = <<>>
  /\ committed = Null
  /\ store = st
  /\ vsCounter = n
  /\ queue = <<>>
  /\ tasks = <<>>
  /\ doneOrder = <<>>
  /\ streams = [s \in 1..MaxStreams |-> noStream]
  /\ server = serverStarted
  /\ call = Null

\* The relay at rest, with a codec call about to be made.
CodecInit(c) ==
  /\ now = 0
  /\ ephemeralTokens = {}
  /\ timers = {}
  /\ issued = [u \in UUIDs |-> Null]
  /\ req = Null
  /\ resp = Null
  /\ engineCalls = <<>>
  /\ tx = <<>>
  /\ committed = Null
  /\ store = EmptyStore
  /\ vsCounter = 0
  /\ queue = <<>>
  /\ tasks = <<>>
  /\ doneOrder = <<>>
  /\ streams = [s \in 1..MaxStreams |-> noStream]
  /\ server = serverStarted
  /\ call = c

\* SpecWrite: one atomic_write request with a live token, against an engine
\* that is empty or seeded.
InitWrite == AdmittedInit(EmptyStore, 0) \/ AdmittedInit(SeededStore, 1)

WriteRequest ==
  /\ IsNull(req)
  /\ \E body \in WriteBodies, fault \in BOOLEAN :
       AtomicWrite(POST, Some(Bearer \o Token1), body, fault)

NextWrite == WriteRequest

SpecWrite == InitWrite /\ [][NextWrite]_vars

\* SpecRead: one snapshot_read request with a live token, against an engine
\* that holds three entries; its list iterators advance in any order and
\* any of them may fail.
InitRead == AdmittedInit(ReadStore, 1)

ReadRequest ==
  /\ IsNull(req)
  /\ \E body \in ReadBodies : SnapshotReadStart(POST, Some(Bearer \o Token1), body)

NextRead ==
  \/ ReadRequest
  \/ \E i \in 1..MaxRanges : RangeNext(i)
  \/ \E i \in 1..MaxRanges : ListFault(i)
  \/ SnapshotReadRespond

SpecRead == InitRead /\ [][NextRead]_vars

\* SpecAuth: the server from its start: bootstraps, timers, the clock, and
\* requests of every method and authorization on every path.  The datapath
\* bodies are one SET, one range over every key, and one watched key; the
\* engine commits MaxCommits times and fails after that.
OtherPaths == {"/kv", "/kv/watch/"}

AuthWriteBody ==
  <<PbMsg(2, <<PbBytes(1, encodeKey(KeyA)), PbMsg(2, KvValueMsg(<<104>>, VE_BYTES)),
               PbVarint(3, Raw(M_SET))>>)>>
AuthReadBody == <<PrefixRange(<<>>)>>
AuthWatchBody == <<PbMsg(1, <<PbBytes(1, encodeKey(KeyA))>>)>>

InitAuth ==
  /\ now = 0
  /\ ephemeralTokens = {}
  /\ timers = {}
  /\ issued = [u \in UUIDs |-> Null]
  /\ req = Null
  /\ resp = Null
  /\ engineCalls = <<>>
  /\ tx = <<>>
  /\ committed = Null
  /\ store = EmptyStore
  /\ vsCounter = 0
  /\ queue = <<>>
  /\ tasks = <<>>
  /\ doneOrder = <<>>
  /\ streams = [s \in 1..MaxStreams |-> noStream]
  /\ server = serverStarted
  /\ call = Null

NextAuth ==
  \/ Tick
  \/ \E timer \in timers : TimerFire(timer)
  \/ \E method \in Methods, authorization \in Authorizations, uuid \in UUIDs :
       Bootstrap(method, authorization, uuid)
  \/ \E method \in Methods, authorization \in Authorizations :
       AtomicWrite(method, authorization, AuthWriteBody, vsCounter >= MaxCommits)
  \/ \E method \in Methods, authorization \in Authorizations :
       SnapshotReadStart(method, authorization, AuthReadBody)
  \/ \E i \in 1..MaxRanges : RangeNext(i)
  \/ SnapshotReadRespond
  \/ \E method \in Methods, authorization \in Authorizations :
       Watch(method, authorization, AuthWatchBody, 1)
  \/ \E path \in OtherPaths, method \in Methods,
          authorization \in {Null, Some(Bearer \o accessToken)} :
       NotFound(path, method, authorization)

SpecAuth == InitAuth /\ [][NextAuth]_vars

\* SpecWatch: watch requests (two keys, or a key cut short) with a live token
\* on up to MaxStreams connections, against a seeded engine that writes
\* through the relay change; every
\* stream's engine watch yields up to MaxBatches batches and may fail, and
\* every client may go away.
WatchBodies ==
  {<<PbMsg(1, <<PbBytes(1, encodeKey(KeyB))>>), PbMsg(1, <<PbBytes(1, encodeKey(KeyA))>>)>>,
   <<PbMsg(1, <<PbBytes(1, <<2, 97>>)>>)>>}

WatchWriteBody ==
  <<PbMsg(2, <<PbBytes(1, encodeKey(KeyB)), PbMsg(2, KvValueMsg(<<104>>, VE_BYTES)),
               PbVarint(3, Raw(M_SET))>>)>>

InitWatch == AdmittedInit(SeededStore, 1)

WatchRequest ==
  \E body \in WatchBodies, s \in 1..MaxStreams :
    Watch(POST, Some(Bearer \o Token1), body, s)

WatchWrite ==
  /\ vsCounter < 1 + MaxCommits
  /\ AtomicWrite(POST, Some(Bearer \o Token1), WatchWriteBody, FALSE)

NextWatch ==
  \/ WatchRequest
  \/ WatchWrite
  \/ \E s \in 1..MaxStreams : EngineYield(s)
  \/ \E s \in 1..MaxStreams : Transform(s)
  \/ \E s \in 1..MaxStreams : Flush(s)
  \/ \E s \in 1..MaxStreams : ClientDisconnect(s)
  \/ \E s \in 1..MaxStreams : CancelWatch(s)
  \/ \E s \in 1..MaxStreams : EngineError(s)
  \/ \E s \in 1..MaxStreams : StreamError(s)

SpecWatch == InitWatch /\ [][NextWatch]_vars

\* SpecWatchFair: the server does cancel the body of a response whose client
\* is gone.
SpecWatchFair ==
  SpecWatch /\ \A s \in 1..MaxStreams : WF_vars(CancelWatch(s))

\* SpecKey: the key codec applied to keys and to byte strings.  A call
\* starts from a key, from two keys or from bytes, and each step applies
\* encodeKey, decodeKey or decodeRangeKey to what the call holds.
\* Float bit patterns, most significant byte first.
NegNaN == <<255, 248, 0, 0, 0, 0, 0, 0>>
NegInf == <<255, 240, 0, 0, 0, 0, 0, 0>>
NegOne == <<191, 240, 0, 0, 0, 0, 0, 0>>
NegZero == <<128, 0, 0, 0, 0, 0, 0, 0>>
PosZero == <<0, 0, 0, 0, 0, 0, 0, 0>>
PosTiny == <<0, 0, 0, 0, 0, 0, 0, 1>>
PosOne == <<63, 240, 0, 0, 0, 0, 0, 0>>
PosTwo == <<64, 0, 0, 0, 0, 0, 0, 0>>
PosInf == <<127, 240, 0, 0, 0, 0, 0, 0>>
PayloadNaN == <<127, 240, 0, 0, 0, 0, 0, 1>>

FloatBits ==
  {NegNaN, NegInf, NegOne, NegZero, PosZero, PosTiny, PosOne, PosTwo, PosInf,
   canonicalNaN, PayloadNaN}

\* The magnitude of 256^n: a one and n zero bytes.
PowerOf256(n) == [i \in 1..(n + 1) |-> IF i = 1 THEN 1 ELSE 0]

\* Magnitudes of 0, 1, 2, 8, 9 and 255 bytes.
Magnitudes ==
  {<<>>, <<1>>, <<2>>, <<255>>, <<1, 0>>, <<1, 0, 0, 0, 0, 0, 0, 0>>,
   <<255, 255, 255, 255, 255, 255, 255, 255>>, PowerOf256(8),
   PowerOf256(254)}

ByteStrings == {<<>>, <<0>>, <<1>>, <<0, 0>>, <<0, 255>>, <<97>>, <<255>>}

\* "", "a", "b", "\0", "a\0", U+00E9, U+FFFD and the lone surrogate U+D800.
LoneSurrogate == <<237, 160, 128>>
Strings ==
  {<<>>, <<97>>, <<98>>, <<0>>, <<97, 0>>, <<195, 169>>, <<239, 191, 189>>,
   LoneSurrogate}

CodecParts ==
  {BytesPart(b) : b \in ByteStrings}
    \cup {StringPart(b) : b \in Strings}
    \cup {IntPart(neg, mag) : neg \in BOOLEAN, mag \in Magnitudes \ {<<>>}}
    \cup {IntPart(FALSE, <<>>)}
    \cup {FloatPart(bits) : bits \in FloatBits}
    \cup {BoolPart(v) : v \in BOOLEAN}

\* The parts a second position of a key is drawn from.
SecondParts ==
  {BytesPart(<<>>), StringPart(<<97>>), IntPart(FALSE, <<1>>),
   IntPart(TRUE, <<1>>), FloatPart(NegZero), BoolPart(FALSE)}

CodecKeys ==
  {<<>>} \cup {<<p>> : p \in CodecParts}
         \cup {<<p, q>> : p \in CodecParts, q \in SecondParts}

\* Byte strings that are no output of encodeKey: integers with leading zero
\* bytes, a negative zero, long forms of short integers, NaNs with a payload,
\* and inputs cut short or with a wrong tag.
OddBytes ==
  {<<22, 0, 1>>, <<19, 255>>, <<21, 0>>, <<18, 255, 254>>, <<29, 1, 1>>,
   <<29, 0>>, <<11, 255>>, <<11, 254, 254>>,
   <<33>> \o [PayloadNaN EXCEPT ![1] = 255],
   <<33>> \o Invert(NegNaN), <<33>> \o Invert([NegNaN EXCEPT ![8] = 1]),
   <<1, 97>>, <<2, 255, 0>>, <<2, 237, 160, 128, 0>>, <<33, 1, 2>>, <<3>>,
   <<40>>, <<29>>, <<22, 1>>, <<1, 0, 255>>}

\* What the range markers are put after, the markers, and what follows them.
MarkedKeys == {<<>>, KeyA, KeyA1, KeyT, <<BytesPart(<<0>>)>>, <<FloatPart(PosOne)>>}
Markers == {0, 255}
AfterMarker == {<<>>, <<0>>, <<255>>, <<21, 1>>, <<1, 97, 0>>, <<38>>}

MarkedBytes ==
  {encodeKey(k) \o <<m>> \o rest : k \in MarkedKeys, m \in Markers, rest \in AfterMarker}

CodecBytes == OddBytes \cup MarkedBytes \cup {encodeKey(k) : k \in MarkedKeys}

\* Two keys whose parts have the same types position by position.
SameTypes(a, b) ==
  \A i \in 1..(IF Len(a) < Len(b) THEN Len(a) ELSE Len(b)) : a[i].t = b[i].t

KeyPairs == {<<a, b>> \in CodecKeys \X CodecKeys : SameTypes(a, b)}

noKeyResult == [ok |-> TRUE, key |-> <<>>, mode |-> 0]

keyCall(fn, given, keys, bytes, result, encoded) ==
  [fn |-> fn, given |-> given, keys |-> keys, bytes |-> bytes,
   result |-> result, encoded |-> encoded]

KeyInputs ==
  {keyCall("none", "key", <<k>>, <<>>, noKeyResult, <<>>) : k \in CodecKeys}
    \cup {keyCall("none", "keys", p, <<>>, noKeyResult, <<>>) : p \in KeyPairs}
    \cup {keyCall("none", "bytes", <<>>, b, noKeyResult, <<>>) : b \in CodecBytes}

InitKey == \E c \in KeyInputs : CodecInit(Some(c))

relayFrame ==
  <<now, ephemeralTokens, timers, issued, req, resp, engineCalls, tx,
    committed, store, vsCounter, queue, tasks, doneOrder, streams, server>>

\* encodeKey on the key the call was given, or on the key decodeKey gave.
EncodeKey ==
  /\ ~IsNull(call)
  /\ LET c == call[1]
     IN  /\ \/ c.fn = "none" /\ c.given = "key"
            \/ c.fn = "decodeKey" /\ c.given = "bytes" /\ c.result.ok
         /\ call' = Some([c EXCEPT
              !.fn = "encodeKey",
              !.encoded = <<encodeKey(IF c.given = "key" THEN c.keys[1]
                                      ELSE c.result.key)>>])
  /\ UNCHANGED relayFrame

\* encodeKey on each of two keys.
EncodeKeys ==
  /\ ~IsNull(call)
  /\ LET c == call[1]
     IN  /\ c.fn = "none" /\ c.given = "keys"
         /\ call' = Some([c EXCEPT
              !.fn = "encodeKey",
              !.encoded = <<encodeKey(c.keys[1]), encodeKey(c.keys[2])>>])
  /\ UNCHANGED relayFrame

\* decodeKey on the bytes the call was given, or on the bytes encodeKey gave.
DecodeKey ==
  /\ ~IsNull(call)
  /\ LET c == call[1]
     IN  /\ \/ c.fn = "none" /\ c.given = "bytes"
            \/ c.fn = "encodeKey" /\ c.given = "key"
         /\ call' = Some([c EXCEPT
              !.fn = "decodeKey",
              !.result = decodeKey(IF c.given = "bytes" THEN c.bytes
                                   ELSE c.encoded[1])])
  /\ UNCHANGED relayFrame

\* decodeRangeKey on the bytes the call was given.
DecodeRangeKey ==
  /\ ~IsNull(call)
  /\ LET c == call[1]
     IN  /\ c.fn = "none" /\ c.given = "bytes"
         /\ call' = Some([c EXCEPT !.fn = "decodeRangeKey",
                                   !.result = decodeRangeKey(c.bytes)])
  /\ UNCHANGED relayFrame

NextKey == EncodeKey \/ EncodeKeys \/ DecodeKey \/ DecodeRangeKey

SpecKey == InitKey /\ [][NextKey]_vars

\* SpecPb: the decoders of the request messages applied to the bytes of a
\* message, and to the same bytes with the bytes of one more record put in
\* at a record boundary.
MessageTypes ==
  {"SnapshotRead", "ReadRange", "AtomicWrite", "Check", "Mutation", "KvValue",
   "Enqueue", "Watch", "WatchKey"}

\* decodeX(buf): the records are read from the bytes, then told apart by
\* field number; ok = FALSE is a thrown error.
decodeRecords(type, parsed) ==
  IF ~parsed.ok THEN [ok |-> FALSE]
  ELSE CASE type = "SnapshotRead" -> decodeSnapshotRead(parsed.records)
         [] type = "ReadRange" -> decodeReadRange(parsed.records)
         [] type = "AtomicWrite" -> decodeAtomicWrite(parsed.records)
         [] type = "Check" -> decodeCheck(parsed.records)
         [] type = "Mutation" -> decodeMutation(parsed.records)
         [] type = "KvValue" -> decodeKvValue(parsed.records)
         [] type = "Enqueue" -> decodeEnqueue(parsed.records)
         [] type = "Watch" -> decodeWatch(parsed.records)
         [] type = "WatchKey" -> decodeWatchKey(parsed.records)

decodeMessage(type, buf) == decodeRecords(type, readPbRecords(buf))

\* Messages of each type, as the records a client writes.
SampleCheck == <<PbBytes(1, encodeKey(KeyA)), PbBytes(2, <<0, 7>>)>>
SampleMutation ==
  <<PbBytes(1, encodeKey(KeyT)), PbMsg(2, KvValueMsg(LE64Five, VE_LE64)),
    PbVarint(3, Raw(M_SUM)), PbVarint(4, Raw(7)), PbVarint(7, Raw(1))>>
SampleEnqueue ==
  <<PbBytes(1, serialize(JsObject(2))), PbVarint(2, Raw(300)),
    PbBytes(3, encodeKey(KeyA)), PbPacked(4, <<Raw(1), Raw(300)>>),
    PbVarint(4, Raw(2))>>
SampleReadRange == ReadRangeMsg(encodeKey(KeyA), <<255>>, Raw(2), TRUE)
SampleWatchKey == <<PbBytes(1, encodeKey(KeyB))>>

SampleMessages(type) ==
  CASE type = "SnapshotRead" ->
         {<<PbMsg(1, SampleReadRange), PrefixRange(KeyT)>>, <<PrefixRange(<<>>)>>}
    [] type = "ReadRange" -> {SampleReadRange, <<PbBytes(2, <<255>>)>>}
    [] type = "AtomicWrite" ->
         {<<PbMsg(1, SampleCheck), PbMsg(2, SampleMutation), PbMsg(3, SampleEnqueue)>>,
          <<PbMsg(2, SampleMutation), PbMsg(1, SampleCheck), PbMsg(2, SampleMutation)>>}
    [] type = "Check" -> {SampleCheck, <<PbBytes(1, encodeKey(KeyA))>>}
    [] type = "Mutation" ->
         {SampleMutation,
          <<PbBytes(1, encodeKey(KeyA)), PbVarint(3, Raw(M_DELETE))>>}
    [] type = "KvValue" -> {KvValueMsg(<<104, 105>>, VE_BYTES), <<>>}
    [] type = "Enqueue" -> {SampleEnqueue, <<PbBytes(1, serialize(JsObject(2)))>>}
    [] type = "Watch" ->
         {<<PbMsg(1, SampleWatchKey), PbMsg(1, <<PbBytes(1, encodeKey(KeyA))>>)>>}
    [] type = "WatchKey" -> {SampleWatchKey}

\* Field numbers no request message has, and a record of each wire type.
UnknownFields == {0, 9, 2000}

UnknownRecords ==
  UNION {{PbVarint(f, Raw(300)), PbVarint(f, RawMinusOne32),
          PbFixed(f, I64, <<8, 1, 16, 2, 255, 255, 255, 255>>),
          PbFixed(f, I32, <<8, 1, 255, 255>>),
          PbBytes(f, <<255, 255>>), PbBytes(f, encodeKey(KeyA)),
          PbMsg(f, SampleCheck), PbOther(f, SGROUP), PbOther(f, EGROUP)}
         : f \in UnknownFields}

\* The byte offsets of the record boundaries of a message.
Boundaries(records) ==
  {Len(writePbRecords(SubSeq(records, 1, i))) : i \in 0..Len(records)}

InsertAt(buf, at, extra) ==
  SubSeq(buf, 1, at) \o extra \o SubSeq(buf, at + 1, Len(buf))

pbCall(type, buf, at, extra) ==
  [fn |-> "none", type |-> type, buf |-> buf, at |-> at, extra |-> extra,
   given |-> Null, extended |-> Null]

PbInputs ==
  UNION {{pbCall(type, writePbRecords(m), at, writePbRecord(u))
            : at \in Boundaries(m), u \in UnknownRecords}
         : <<type, m>> \in UNION {{<<t, m>> : m \in SampleMessages(t)} : t \in MessageTypes}}

InitPb == \E c \in PbInputs : CodecInit(Some(c))

\* The decoder of the call's type on the bytes of the message.
DecodeGiven ==
  /\ ~IsNull(call)
  /\ LET c == call[1]
     IN  /\ c.fn = "none"
         /\ call' = Some([c EXCEPT !.fn = "decode",
                                   !.given = Some(decodeMessage(c.type, c.buf))])
  /\ UNCHANGED relayFrame

\* The same decoder on the bytes with the other record among them.
DecodeExtended ==
  /\ ~IsNull(call)
  /\ LET c == call[1]
     IN  /\ c.fn = "decode"
         /\ IsNull(c.extended)
         /\ call' = Some([c EXCEPT
              !.extended = Some(decodeMessage(c.type, InsertAt(c.buf, c.at, c.extra)))])
  /\ UNCHANGED relayFrame

NextPb == DecodeGiven \/ DecodeExtended

SpecPb == InitPb /\ [][NextPb]_vars

\* SpecValue: one atomic_write request with a live token whose last record
\* is a mutation that carries one of the value envelopes below (or none),
\* after nothing or after a SET that decodes.
EnvelopeDatas ==
  {<<>>, <<104>>, LE64Five, <<1, 2, 3, 4, 5, 6, 7, 8>>, <<1, 2, 3, 4, 5, 6, 7>>,
   <<1, 2, 3, 4, 5, 6, 7, 8, 9>>, serialize(JsObject(1)), <<255, 15>>}

EnvelopeEncodings == {VE_UNSPECIFIED, VE_V8, VE_LE64, VE_BYTES, 4}

ValueRecords ==
  {<<>>} \cup {<<PbMsg(2, KvValueMsg(data, encoding))>>
                 : data \in EnvelopeDatas, encoding \in EnvelopeEncodings}

ValueMutationTypes == {M_SET, M_SUM, M_MAX, M_MIN, M_SET_SUFFIX_VERSIONSTAMPED_KEY}

ValueMutations ==
  {PbMsg(2, <<PbBytes(1, encodeKey(KeyT))>> \o v \o <<PbVarint(3, Raw(type))>>)
     : v \in ValueRecords, type \in ValueMutationTypes}

ValueBodies ==
  {<<m>> : m \in ValueMutations} \cup {WatchWriteBody \o <<m>> : m \in ValueMutations}

InitValue == AdmittedInit(SeededStore, 1)

ValueRequest ==
  /\ IsNull(req)
  /\ \E body \in ValueBodies :
       AtomicWrite(POST, Some(Bearer \o Token1), body, FALSE)

NextValue == ValueRequest

SpecValue == InitValue /\ [][NextValue]_vars

\* SpecOptions: the clock advances, then one atomic_write with a live token
\* carries one SET or SET_SUFFIX_VERSIONSTAMPED_KEY with or without
\* expire_at_ms, or one Enqueue with or without deadline_ms,
\* keys_if_undelivered and backoff_schedule.
\* The 64-bit varint of a small integer (two's complement).
Int64Raw(n) == IF n >= 0 THEN Raw(n) ELSE <<65536 + n, 65535, 65535, 65535>>

ExpireAts == {Null, Some(0), Some(1), Some(3), Some(9), Some(-1), Some(-4)}
SetTypes == {M_SET, M_SET_SUFFIX_VERSIONSTAMPED_KEY}

OptionMutation(type, expireAt) ==
  PbMsg(2, <<PbBytes(1, encodeKey(KeyA)), PbMsg(2, KvValueMsg(<<104>>, VE_BYTES)),
             PbVarint(3, Raw(type))>>
           \o (IF IsNull(expireAt) THEN <<>> ELSE <<PbVarint(4, Int64Raw(expireAt[1]))>>))

Deadlines == {Null, Some(0), Some(2), Some(3), Some(9), Some(-1)}
UndeliveredKeys == {<<>>, <<KeyA>>, <<KeyA, KeyT>>, <<KeyT, KeyA>>}

\* A backoff schedule on the wire: groups of intervals, a group sent either
\* as one packed record or as one record for each interval.
BackoffGroup(packed, values) == [packed |-> packed, values |-> values]
Backoffs ==
  {<<>>,
   <<BackoffGroup(TRUE, <<>>)>>,
   <<BackoffGroup(FALSE, <<5>>)>>,
   <<BackoffGroup(TRUE, <<1, 2>>)>>,
   <<BackoffGroup(FALSE, <<7, 3>>)>>,
   <<BackoffGroup(FALSE, <<5>>), BackoffGroup(TRUE, <<1, 2>>), BackoffGroup(FALSE, <<3>>)>>}

BackoffRecords(group) ==
  IF group.packed THEN <<PbPacked(4, SeqMap(Raw, group.values))>>
  ELSE SeqMap(LAMBDA v : PbVarint(4, Raw(v)), group.values)

OptionEnqueue(deadline, keys, backoff) ==
  PbMsg(3, <<PbBytes(1, serialize(JsObject(2)))>>
           \o (IF IsNull(deadline) THEN <<>> ELSE <<PbVarint(2, Int64Raw(deadline[1]))>>)
           \o SeqMap(LAMBDA k : PbBytes(3, encodeKey(k)), keys)
           \o Flatten(SeqMap(BackoffRecords, backoff)))

OptionBodies ==
  {<<OptionMutation(type, expireAt)>> : type \in SetTypes, expireAt \in ExpireAts}
    \cup {<<OptionEnqueue(deadline, keys, backoff)>>
            : deadline \in Deadlines, keys \in UndeliveredKeys, backoff \in Backoffs}

InitOptions == AdmittedInit(EmptyStore, 0)

OptionsRequest ==
  /\ IsNull(req)
  /\ \E body \in OptionBodies :
       AtomicWrite(POST, Some(Bearer \o Token1), body, FALSE)

OptionsTick == IsNull(req) /\ Tick

NextOptions == OptionsTick \/ OptionsRequest

SpecOptions == InitOptions /\ [][NextOptions]_vars

\* SpecGate: requests to the three datapath endpoints, with either method,
\* with or without a live token, and with a body that decodes or one that
\* does not; Token1 is live, and the engine fails the commits after the
\* first.
MalformedBody == <<PbVarint(1, Raw(1))>>
GateAuthorizations ==
  {Null, Some(Bearer \o accessToken)} \cup {Some(Bearer \o u) : u \in UUIDs}

InitGate == AdmittedInit(SeededStore, 1)

GateWrite ==
  \E method \in Methods, authorization \in GateAuthorizations,
     body \in {AuthWriteBody, MalformedBody} :
    AtomicWrite(method, authorization, body, vsCounter >= 1 + MaxCommits)

GateRead ==
  \E method \in Methods, authorization \in GateAuthorizations,
     body \in {AuthReadBody, MalformedBody} :
    SnapshotReadStart(method, authorization, body)

GateWatch ==
  \E method \in Methods, authorization \in GateAuthorizations,
     body \in {AuthWatchBody, MalformedBody} :
    Watch(method, authorization, body, 1)

NextGate ==
  \/ GateWrite
  \/ GateRead
  \/ \E i \in 1..MaxRanges : RangeNext(i)
  \/ SnapshotReadRespond
  \/ GateWatch

SpecGate == InitGate /\ [][NextGate]_vars

\* SpecSession: Token1 is live until its timer runs; requests that carry it
\* open a watch stream, start a snapshot_read and write, while the clock
\* advances, the engine's watch yields batches and the list iterators go on.
InitSession == AdmittedInit(SeededStore, 1)

SessionWatch == Watch(POST, Some(Bearer \o Token1), AuthWatchBody, 1)

SessionRead == SnapshotReadStart(POST, Some(Bearer \o Token1), AuthReadBody)

SessionWrite ==
  AtomicWrite(POST, Some(Bearer \o Token1), AuthWriteBody, vsCounter >= 1 + MaxCommits)

NextSession ==
  \/ Tick
  \/ \E timer \in timers : TimerFire(timer)
  \/ SessionWatch
  \/ EngineYield(1)
  \/ Transform(1)
  \/ Flush(1)
  \/ SessionRead
  \/ \E i \in 1..MaxRanges : RangeNext(i)
  \/ SnapshotReadRespond
  \/ SessionWrite

SpecSession == InitSession /\ [][NextSession]_vars

\* SpecSessionFair: the event loop runs what is ready: the transform on a
\* batch that was read, the write of an enqueued chunk to a connected
\* client, the next step of a list iterator, the response of a settled read.
TransformReady(s) ==
  /\ streamLive(s)
  /\ streams[s].framed < Len(streams[s].batches)
  /\ ~backpressure(streams[s])

SpecSessionFair ==
  /\ SpecSession
  /\ []<>(~TransformReady(1)) \/ []<><<Transform(1)>>_vars
  /\ WF_vars(Flush(1))
  /\ \A i \in 1..MaxRanges : WF_vars(RangeNext(i))
  /\ WF_vars(SnapshotReadRespond)

\* SpecSnapshot: one snapshot_read with a live token against the engine of
\* SpecRead, while an atomic_write of another connection is committed: the
\* handlers are async, and the server runs one for every request it has
\* received.
SnapshotBodies ==
  {<<PrefixRange(<<>>)>>,
   <<PrefixRange(<<>>), PrefixRange(<<>>)>>,
   <<PrefixRange(KeyT), PrefixRange(<<>>)>>}

ConcurrentBodies == {AuthWriteBody, WatchWriteBody, AuthWriteBody \o WatchWriteBody}

InitSnapshot == AdmittedInit(ReadStore, 1)

SnapshotRequest ==
  /\ IsNull(req)
  /\ \E body \in SnapshotBodies : SnapshotReadStart(POST, Some(Bearer \o Token1), body)

\* The transaction of the other connection's request is committed while the
\* list iterators of the read are awaited.
ConcurrentCommit(op) ==
  LET result == EngineCommit(store, queue, vsCounter, op.ops, FALSE)
  IN  /\ op.ok
      /\ result.outcome = "ok"
      /\ store' = result.st
      /\ queue' = result.queue
      /\ vsCounter' = vsCounter + 1

ConcurrentWrite(body) ==
  /\ ~IsNull(req)
  /\ IsNull(resp)
  /\ req[1].path = "/kv/snapshot_read"
  /\ vsCounter < 1 + MaxCommits
  /\ ConcurrentCommit(buildAtomic(decodeAtomicWrite(body), now))
  /\ UNCHANGED <<now, server, streams, call, authVars, req, resp, engineCalls, tx,
                 committed, tasks, doneOrder>>

NextSnapshot ==
  \/ SnapshotRequest
  \/ \E i \in 1..MaxRanges : RangeNext(i)
  \/ SnapshotReadRespond
  \/ \E body \in ConcurrentBodies : ConcurrentWrite(body)

SpecSnapshot == InitSnapshot /\ [][NextSnapshot]_vars

\* SpecEncode: the encoders of the response messages applied to messages of
\* each type, the bytes written as the writer writes them.
OutputTypes ==
  {"SnapshotReadOutput", "ReadRangeOutput", "AtomicWriteOutput", "KvEntry",
   "WatchOutput", "WatchKeyOutput"}

EntrySamples ==
  {[key |-> k, value |-> v, encoding |-> e, versionstamp |-> vs]
     : k \in {<<>>, encodeKey(KeyA)}, v \in {<<>>, <<104>>},
       e \in {VE_UNSPECIFIED, VE_BYTES}, vs \in {<<>>, <<0, 1>>}}

EmptyEntry == [key |-> <<>>, value |-> <<>>, encoding |-> VE_UNSPECIFIED, versionstamp |-> <<>>]
FullEntry ==
  [key |-> encodeKey(KeyA), value |-> <<104>>, encoding |-> VE_BYTES, versionstamp |-> <<0, 1>>]

WatchKeyOutputSamples ==
  {[changed |-> c, entry_if_changed |-> e]
     : c \in BOOLEAN, e \in {Null, Some(EmptyEntry), Some(FullEntry)}}

WatchOutputSamples ==
  {[status |-> st, keys |-> ks]
     : st \in {SR_UNSPECIFIED, SR_SUCCESS}, ks \in SeqsUpTo(WatchKeyOutputSamples, 2)}

ReadRangeOutputSamples == {[values |-> vs] : vs \in SeqsUpTo({EmptyEntry, FullEntry}, 2)}

SnapshotReadOutputSamples ==
  {[ranges |-> rs, read_disabled |-> d, read_is_strongly_consistent |-> c, status |-> st]
     : rs \in SeqsUpTo({[values |-> <<>>], [values |-> <<FullEntry>>]}, 2),
       d \in BOOLEAN, c \in BOOLEAN,
       st \in {SR_UNSPECIFIED, SR_SUCCESS, SR_READ_DISABLED}}

AtomicWriteOutputSamples ==
  {[status |-> st, versionstamp |-> vs, failed_checks |-> fc]
     : st \in {AW_UNSPECIFIED, AW_SUCCESS, AW_CHECK_FAILURE, AW_WRITE_DISABLED},
       vs \in {<<>>, <<0, 2>>}, fc \in {<<>>, <<Raw(0), Raw(2)>>}}

OutputSamples(type) ==
  CASE type = "SnapshotReadOutput" -> SnapshotReadOutputSamples
    [] type = "ReadRangeOutput" -> ReadRangeOutputSamples
    [] type = "AtomicWriteOutput" -> AtomicWriteOutputSamples
    [] type = "KvEntry" -> EntrySamples
    [] type = "WatchOutput" -> WatchOutputSamples
    [] type = "WatchKeyOutput" -> WatchKeyOutputSamples

\* encodeX(msg): the bytes of the records the encoder writes.
encodeMessage(type, msg) ==
  writePbRecords(
    CASE type = "SnapshotReadOutput" -> encodeSnapshotReadOutput(msg)
      [] type = "ReadRangeOutput" -> encodeReadRangeOutput(msg)
      [] type = "AtomicWriteOutput" -> encodeAtomicWriteOutput(msg)
      [] type = "KvEntry" -> encodeKvEntry(msg)
      [] type = "WatchOutput" -> encodeWatchOutput(msg)
      [] type = "WatchKeyOutput" -> encodeWatchKeyOutput(msg))

encodeCall(type, msg) == [fn |-> "none", type |-> type, msg |-> msg, out |-> Null]

EncodeInputs == UNION {{encodeCall(t, m) : m \in OutputSamples(t)} : t \in OutputTypes}

InitEncode == \E c \in EncodeInputs : CodecInit(Some(c))

EncodeOutput ==
  /\ ~IsNull(call)
  /\ LET c == call[1]
     IN  /\ c.fn = "none"
         /\ call' = Some([c EXCEPT !.fn = "encode",
                                   !.out = Some(encodeMessage(c.type, c.msg))])
  /\ UNCHANGED relayFrame

NextEncode == EncodeOutput

SpecEncode == InitEncode /\ [][NextEncode]_vars

\* SpecShutdown: snapshot_read requests and a watch stream with a live
\* token, and the interrupt signal at any moment.
ShutdownRead == SnapshotReadStart(POST, Some(Bearer \o Token1), AuthReadBody)

ShutdownWatch == Watch(POST, Some(Bearer \o Token1), AuthWatchBody, 1)

NextShutdown ==
  \/ ShutdownRead
  \/ \E i \in 1..MaxRanges : RangeNext(i)
  \/ \E i \in 1..MaxRanges : ListFault(i)
  \/ SnapshotReadRespond
  \/ ShutdownWatch
  \/ EngineYield(1)
  \/ Transform(1)
  \/ Flush(1)
  \/ ClientDisconnect(1)
  \/ CancelWatch(1)
  \/ Interrupt
  \/ ServerFinished

SpecShutdown == InitRead /\ [][NextShutdown]_vars

\* SpecShutdownFair: the engine's list iterators go on, the handler answers
\* when they are through, and the server resolves `finished` when it can.
SpecShutdownFair ==
  /\ SpecShutdown
  /\ \A i \in 1..MaxRanges : WF_vars(RangeNext(i))
  /\ WF_vars(SnapshotReadRespond)
  /\ WF_vars(ServerFinished)

\* ------------------------------------------ properties of authentication
DatapathPaths == {"/kv/snapshot_read", "/kv/atomic_write", "/kv/watch"}

\* The last request was a POST to a datapath endpoint and has its response.
DatapathPostAnswered ==
  /\ ~IsNull(req)
  /\ ~IsNull(resp)
  /\ req[1].path \in DatapathPaths
  /\ req[1].method = "POST"

\* C1: a datapath request that carries a token issued with expiry time
\* t + ttl passes authentication when it is received before that time and
\* is answered 401 when it is received after it.
C1_ValidUntilExpiry ==
  DatapathPostAnswered =>
    \A u \in UUIDs :
      (req[1].authorization = Some(Bearer \o u) /\ ~IsNull(issued[u])) =>
        /\ req[1].receivedAt < issued[u][1] => resp[1].status # 401
        /\ req[1].receivedAt > issued[u][1] => resp[1].status = 401

\* A request received after its token's expiry time and answered 200.
C1_Witness ==
  /\ DatapathPostAnswered
  /\ \E u \in UUIDs :
       /\ req[1].authorization = Some(Bearer \o u)
       /\ ~IsNull(issued[u])
       /\ req[1].receivedAt > issued[u][1]
  /\ resp[1].status = 200
  /\ engineCalls # <<>>

\* The request received in this step is a datapath request whose
\* Authorization is not "Bearer " and a token that is live as it arrives.
UnauthenticatedArrives ==
  /\ req' # req
  /\ req'[1].path \in DatapathPaths
  /\ req'[1].authorization \notin {Some(Bearer \o u) : u \in ephemeralTokens}

\* C2 as stated: such a request is answered 401 with WWW-Authenticate:
\* Bearer, and no engine operation is made for it.
C2_Unauthorized ==
  [][UnauthenticatedArrives =>
       /\ ~IsNull(resp')
       /\ resp'[1].status = 401
       /\ resp'[1].wwwAuthenticate = "Bearer"
       /\ engineCalls' = <<>>
       /\ UNCHANGED engineVars]_vars

\* C2: such a request is answered 401 with WWW-Authenticate: Bearer when its
\* method is POST and 405 with Allow: POST when it is not, and no engine
\* operation is made for it either way.
C2_UnauthorizedOrNotPost ==
  [][UnauthenticatedArrives =>
       /\ ~IsNull(resp')
       /\ IF req'[1].method = "POST"
            THEN resp'[1].status = 401 /\ resp'[1].wwwAuthenticate = "Bearer"
            ELSE resp'[1].status = 405 /\ resp'[1].allow = "POST"
       /\ resp'[1].body = <<>>
       /\ engineCalls' = <<>>
       /\ tasks' = <<>>
       /\ tx' = <<>>
       /\ UNCHANGED engineVars]_vars

\* A POST that carries the access token, or a token that is no longer live,
\* to a datapath endpoint, answered 401.
C2_Witness ==
  /\ DatapathPostAnswered
  /\ \/ req[1].authorization = Some(Bearer \o accessToken)
     \/ \E u \in UUIDs : /\ req[1].authorization = Some(Bearer \o u)
                         /\ ~IsNull(issued[u])
                         /\ u \notin ephemeralTokens
  /\ resp[1].status = 401
  /\ resp[1].wwwAuthenticate = "Bearer"
  /\ engineCalls = <<>>

\* ------------------------------------------- properties of atomic_write
\* The records of a message body that carry field f, in wire order.
WireField(body, f) == SelectSeq(body, LAMBDA r : r.fieldNumber = f)

\* The last value of a scalar field of a response body, or its default.
WireInt32(body, f) ==
  LET rs == WireField(body, f)
  IN  IF rs = <<>> THEN 0 ELSE decodePbInt32(rs[Len(rs)].raw)
WireBytes(body, f) ==
  LET rs == WireField(body, f)
  IN  IF rs = <<>> THEN <<>> ELSE rs[Len(rs)].bytes
WirePacked(body, f) ==
  LET rs == WireField(body, f)
  IN  IF rs = <<>> THEN <<>> ELSE rs[Len(rs)].packed

\* The operation one Check, Mutation or Enqueue record of the request
\* stands for.
ExpectedOp(record) ==
  CASE record.fieldNumber = 1 -> buildCheck(decodeCheck(record.msg)).op
    [] record.fieldNumber = 2 ->
         buildMutation(decodeMutation(record.msg), req[1].receivedAt).op
    [] record.fieldNumber = 3 ->
         buildEnqueue(decodeEnqueue(record.msg), req[1].receivedAt).op

AtomicWriteAnswered ==
  /\ ~IsNull(req)
  /\ ~IsNull(resp)
  /\ req[1].path = "/kv/atomic_write"

Committing == AtomicWriteAnswered /\ engineCalls = <<"commit">>

\* C3: the operations attached to the transaction that is committed are the
\* request's checks, then its mutations, then its enqueues, each group in
\* the order its records came on the wire.
C3_ChecksMutationsEnqueuesInOrder ==
  Committing =>
    tx = SeqMap(ExpectedOp, WireField(req[1].body, 1) \o WireField(req[1].body, 2)
                              \o WireField(req[1].body, 3))

\* A committed request whose records came as enqueue, mutation, check.
C3_Witness ==
  /\ Committing
  /\ Len(req[1].body) = 3
  /\ req[1].body[1].fieldNumber = 3
  /\ req[1].body[2].fieldNumber = 2
  /\ req[1].body[3].fieldNumber = 1
  /\ <<tx[1].op, tx[3].op>> = <<"check", "enqueue">>

\* C4: once the transaction is built the response is 200 and follows the
\* commit outcome alone: success gives AW_SUCCESS and the bytes of the commit
\* versionstamp, a failed check gives AW_CHECK_FAILURE with no versionstamp
\* and no failed_checks, any other error gives AW_UNSPECIFIED.
C4_ResponseFollowsCommitOutcome ==
  Committing =>
    LET outcome == committed[1].outcome
        body == resp[1].body
    IN  /\ resp[1].status = 200
        /\ outcome = "ok" =>
             /\ WireInt32(body, 1) = AW_SUCCESS
             /\ WireBytes(body, 2) = Zeros(VsBytes - 1) \o <<vsCounter>>
             /\ encodeHex(WireBytes(body, 2)) = committed[1].versionstamp
        /\ outcome = "check" =>
             /\ WireInt32(body, 1) = AW_CHECK_FAILURE
             /\ WireBytes(body, 2) = <<>>
             /\ WirePacked(body, 4) = <<>>
        /\ outcome = "error" => WireInt32(body, 1) = AW_UNSPECIFIED

\* A commit that threw, after a transaction of two operations was built.
C4_Witness ==
  /\ Committing
  /\ committed[1].outcome = "error"
  /\ Len(tx) = 2
  /\ resp[1].status = 200
  /\ WireField(resp[1].body, 1) = <<>>

\* The i-th check of the request, decoded.
WireCheck(i) == decodeCheck(WireField(req[1].body, 1)[i].msg)
WireCheckCount == Len(WireField(req[1].body, 1))

\* C5 as stated: the engine is given null exactly for the checks whose
\* versionstamp is empty, and the hex text of the bytes for any other.
C5_NullIffEmpty ==
  Committing =>
    \A i \in 1..WireCheckCount :
      /\ IsNull(tx[i].versionstamp) <=> (WireCheck(i).versionstamp = <<>>)
      /\ WireCheck(i).versionstamp # <<>> =>
           tx[i].versionstamp = Some(encodeHex(WireCheck(i).versionstamp))

\* C5: the engine is given null exactly for the checks whose versionstamp
\* has no non-zero byte (empty, or all zeros), and for any other the hex text
\* of the bytes: two lowercase digits a byte, which decode back to them.
C5_NullIffNoNonZeroByte ==
  Committing =>
    \A i \in 1..WireCheckCount :
      LET bytes == WireCheck(i).versionstamp
          given == tx[i].versionstamp
      IN  /\ tx[i].op = "check"
          /\ IsNull(given) <=> (\A k \in 1..Len(bytes) : bytes[k] = 0)
          /\ ~IsNull(given) =>
               /\ Len(given[1]) = 2 * Len(bytes)
               /\ \A k \in 1..Len(given[1]) : given[1][k] \in {alphabet[d] : d \in 1..16}
               /\ decodeHex(given[1]) = bytes

\* A committed check whose versionstamp is all zeros and not empty.
C5_Witness ==
  /\ Committing
  /\ \E i \in 1..WireCheckCount :
       /\ WireCheck(i).versionstamp = Zeros(VsBytes)
       /\ WireCheck(i).versionstamp # <<>>
       /\ IsNull(tx[i].versionstamp)

\* C6: a request that holds a record which does not decode is answered 400,
\* commit is not called for it, and the engine is left as it was, whatever
\* records come before the bad one.
C6_BadRequestLeavesEngineAlone ==
  [][(/\ req' # req
      /\ req'[1].path = "/kv/atomic_write"
      /\ req'[1].method = "POST"
      /\ isEphemeralTokenValid(getToken(req'[1].authorization))
      /\ \E i \in 1..Len(req'[1].body) : req'[1].body[i] \in BadWriteRecords)
     => (/\ resp'[1].status = 400
         /\ resp'[1].body = <<>>
         /\ engineCalls' = <<>>
         /\ committed' = Null
         /\ UNCHANGED engineVars)]_vars

\* A 400 for a request whose bad record comes after two good ones.
C6_Witness ==
  /\ AtomicWriteAnswered
  /\ Len(req[1].body) = 3
  /\ req[1].body[1] \in GoodCheckRecords
  /\ req[1].body[2] \in GoodMutationRecords
  /\ req[1].body[3] \in BadMutationRecords
  /\ resp[1].status = 400
  /\ engineCalls = <<>>

\* ------------------------------------------- properties of snapshot_read
SnapshotReadAnswered ==
  /\ ~IsNull(req)
  /\ ~IsNull(resp)
  /\ req[1].path = "/kv/snapshot_read"

\* The i-th range of the request, decoded.
RequestedRanges == WireField(req[1].body, 1)
RequestedRange(i) == decodeReadRange(RequestedRanges[i].msg)

\* The ReadRangeOutput messages of the response, and the entries of the
\* i-th as [key, value, encoding, versionstamp].
RangeOutputs == WireField(resp[1].body, 1)
OutputEntries(i) ==
  LET entries == WireField(RangeOutputs[i].msg, 1)
  IN  [k \in 1..Len(entries) |->
         [key |-> WireBytes(entries[k].msg, 1),
          value |-> WireBytes(entries[k].msg, 2),
          encoding |-> WireInt32(entries[k].msg, 3),
          versionstamp |-> WireBytes(entries[k].msg, 4)]]

\* No list call failed on the engine's side.
NoEngineFailure ==
  \A i \in 1..Len(tasks) : tasks[i].listed => tasks[i].state # "rejected"

\* The entries of a store under prefix p: the keys that extend p by at least
\* one part, in key order.
PrefixScan(st, p) ==
  EngineSort({e \in st : Len(e.key) > Len(p) /\ SubSeq(e.key, 1, Len(p)) = p})

\* C7: a request for the one range from p in mode after to p in mode before
\* succeeds, lists from the exact key p followed by an empty bytes part, and
\* returns the entries under prefix p.
C7_PrefixRange ==
  \A p \in Prefixes :
    (SnapshotReadAnswered /\ req[1].body = <<PrefixRange(p)>> /\ NoEngineFailure) =>
      /\ resp[1].status = 200
      /\ tasks[1].selector.start = Append(p, BytesPart(<<>>))
      /\ Len(RangeOutputs) = 1
      /\ [k \in 1..Len(OutputEntries(1)) |-> OutputEntries(1)[k].key]
           = SeqMap(LAMBDA e : encodeKey(e.key), PrefixScan(store, p))

\* The range under the prefix ("a") is refused before any list call.
C7_Witness ==
  /\ SnapshotReadAnswered
  /\ req[1].body = <<PrefixRange(KeyA)>>
  /\ engineCalls = <<>>
  /\ resp[1].status = 400

\* The i-th record of the request is a range whose start is in mode before.
StartsBefore(i) ==
  LET record == req[1].body[i]
      start == decodeRangeKey(WireBytes(record.msg, 1))
  IN  record.fieldNumber = 1 /\ record.wireType = LEN /\ start.ok /\ start.mode = -1

\* C8: a request with a range whose start is in mode before is answered 400
\* with no body, whatever its other ranges are.
C8_StartBeforeFailsRequest ==
  (SnapshotReadAnswered /\ \E i \in 1..Len(req[1].body) : StartsBefore(i)) =>
    /\ resp[1].status = 400
    /\ resp[1].body = <<>>

\* A 400 for a request whose first range was listed to its end and whose
\* second starts in mode before.
C8_Witness ==
  /\ SnapshotReadAnswered
  /\ Len(req[1].body) = 2
  /\ req[1].body[1] = PrefixRange(KeyT)
  /\ StartsBefore(2)
  /\ tasks[1].state = "done"
  /\ Len(tasks[1].values) = 1
  /\ resp[1].status = 400

\* What the response holds for an entry of the engine.
ExpectedEntry(e) ==
  [key |-> encodeKey(e.key),
   value |-> IF e.value.kind = "u64" THEN Reverse(e.value.data) ELSE e.value.data,
   encoding |-> IF e.value.kind = "u64" THEN VE_LE64 ELSE VE_BYTES,
   versionstamp |-> Zeros(VsBytes - 1) \o <<1>>]

\* What the engine lists for the i-th range of the request.
ExpectedList(i) ==
  LET task == rangeTask(RequestedRange(i))
  IN  EngineList(store, task.selector, task.options)

\* C9: a 200 response holds one ReadRangeOutput for every range of the
\* request, in the order of the request, each with the entries the engine
\* lists for that range in the engine's order; read_disabled is false,
\* read_is_strongly_consistent is true and status is SR_SUCCESS.
C9_RangesInRequestOrder ==
  (SnapshotReadAnswered /\ resp[1].status = 200) =>
    /\ Len(RangeOutputs) = Len(RequestedRanges)
    /\ Len(RangeOutputs) = Len(req[1].body)
    /\ \A i \in 1..Len(RangeOutputs) :
         OutputEntries(i) = SeqMap(ExpectedEntry, ExpectedList(i))
    /\ WireField(resp[1].body, 2) = <<>>
    /\ Len(WireField(resp[1].body, 4)) = 1
    /\ decodePbBool(WireField(resp[1].body, 4)[1].raw)
    /\ WireInt32(resp[1].body, 8) = SR_SUCCESS
    /\ \A k \in 1..Len(resp[1].body) : resp[1].body[k].fieldNumber \in {1, 4, 8}

\* A 200 response to two ranges with different results, the second of which
\* completed first.
C9_Witness ==
  /\ SnapshotReadAnswered
  /\ resp[1].status = 200
  /\ doneOrder = <<2, 1>>
  /\ Len(OutputEntries(1)) = 3
  /\ Len(OutputEntries(2)) = 1

\* C10: a list call is given a limit exactly for the ranges whose limit is
\* above 0, and then that limit, and is told to go in reverse exactly for
\* the ranges whose reverse is true.
C10_LimitAndReverse ==
  \A i \in 1..Len(tasks) :
    tasks[i].listed =>
      LET range == RequestedRange(i)
          options == tasks[i].options
      IN  /\ ~IsNull(options.limit) <=> range.limit > 0
          /\ range.limit > 0 => options.limit = Some(range.limit)
          /\ ~IsNull(options.reverse) <=> range.reverse

\* A list call that was given the limit -1, and the 400 that follows.
C10_Witness ==
  /\ SnapshotReadAnswered
  /\ Len(tasks) = 1
  /\ tasks[1].listed
  /\ tasks[1].options.limit = Some(-1)
  /\ resp[1].status = 400

\* ------------------------------------------- properties of watch streams
StreamIds == 1..MaxStreams

\* The number a 4-byte little-endian header stands for.
HeaderLength(bytes) ==
  bytes[1] + 256 * bytes[2] + 65536 * bytes[3] + 16777216 * bytes[4]

\* Whether records are those of a KvEntry, a WatchKeyOutput, a WatchOutput
\* (the fields and wire types of the protocol schema).
IsKvEntry(records) ==
  \A i \in 1..Len(records) :
    \/ records[i].fieldNumber \in {1, 2, 4} /\ records[i].wireType = LEN
    \/ records[i].fieldNumber = 3 /\ records[i].wireType = VARINT

IsWatchKeyOutput(records) ==
  \A i \in 1..Len(records) :
    \/ records[i].fieldNumber = 1 /\ records[i].wireType = VARINT
    \/ /\ records[i].fieldNumber = 2
       /\ records[i].wireType = LEN
       /\ IsKvEntry(records[i].msg)

IsWatchOutput(records) ==
  \A i \in 1..Len(records) :
    \/ records[i].fieldNumber = 1 /\ records[i].wireType = VARINT
    \/ /\ records[i].fieldNumber = 2
       /\ records[i].wireType = LEN
       /\ IsWatchKeyOutput(records[i].msg)

IsParsedWatchOutput(parsed) == parsed.ok /\ IsWatchOutput(parsed.records)

ParsesAsWatchOutput(bytes) == IsParsedWatchOutput(readPbRecords(bytes))

\* Whether a frame is complete at the start of bytes.
HasFrame(bytes) ==
  Len(bytes) >= 4 /\ Len(bytes) - 4 >= HeaderLength(bytes)

FirstFrame(bytes) == SubSeq(bytes, 5, 4 + HeaderLength(bytes))
AfterFrame(bytes) == SubSeq(bytes, 5 + HeaderLength(bytes), Len(bytes))

\* bytes is complete frames of parseable WatchOutput messages, then at most
\* one partial frame (a part of a header, or a header and fewer bytes than
\* it announces).
RECURSIVE IsFramed(_)
IsFramed(bytes) ==
  IF ~HasFrame(bytes) THEN TRUE
  ELSE ParsesAsWatchOutput(FirstFrame(bytes)) /\ IsFramed(AfterFrame(bytes))

\* The complete frames at the start of bytes, and what follows them.
RECURSIVE Frames(_)
Frames(bytes) ==
  IF ~HasFrame(bytes) THEN <<>>
  ELSE <<FirstFrame(bytes)>> \o Frames(AfterFrame(bytes))

RECURSIVE PartialFrame(_)
PartialFrame(bytes) ==
  IF ~HasFrame(bytes) THEN bytes ELSE PartialFrame(AfterFrame(bytes))

\* The bytes the relay has put on the body of stream s: those written to the
\* client and those still enqueued.
Enqueued(s) == streams[s].sent \o Flatten(streams[s].outbox)

\* C11: at every point of a watch stream, the bytes written to the client so
\* far, and the bytes enqueued on the response body so far, are complete
\* frames followed by at most one partial frame; a frame is a 4-byte
\* little-endian length L and exactly L bytes that parse as a WatchOutput.
C11_WatchFraming ==
  \A s \in StreamIds : IsFramed(streams[s].sent) /\ IsFramed(Enqueued(s))

\* A stream whose client has received a complete frame and the header of the
\* next one.
C11_Witness ==
  \E s \in StreamIds :
    /\ Len(Frames(streams[s].sent)) = 1
    /\ Len(PartialFrame(streams[s].sent)) = 4
    /\ ParsesAsWatchOutput(Frames(streams[s].sent)[1])

\* The complete frames relayed on stream s so far, and one of them parsed.
RelayedFrames(s) == Frames(Enqueued(s))
Parsed(frame) == readPbRecords(frame).records

\* The WatchKeyOutput messages of a parsed WatchOutput, and the KvEntry of
\* one of them (null when it has none).
KeyOutputs(out) == WireField(out, 2)
LastMsg(records) == IF records = <<>> THEN Null ELSE Some(records[Len(records)].msg)
EntryOf(keyOutput) == LastMsg(WireField(keyOutput.msg, 2))

\* Whether a parsed WatchOutput tells what a batch holds: as many keys, and
\* for each an entry with the batch's versionstamp, or none.
TellsEntry(entry, e) ==
  IF IsNull(e.versionstamp) THEN IsNull(entry)
  ELSE ~IsNull(entry) /\ encodeHex(WireBytes(entry[1], 4)) = e.versionstamp[1]

TellsEntries(keyOutputs, batch) ==
  /\ Len(keyOutputs) = Len(batch)
  /\ \A j \in 1..Len(batch) : TellsEntry(EntryOf(keyOutputs[j]), batch[j])

TellsBatch(out, batch) == TellsEntries(KeyOutputs(out), batch)

FramesTellBatches(frames, stream) ==
  /\ Len(frames) <= stream.framed
  /\ stream.framed <= Len(stream.batches)
  /\ stream.state \in {"open", "streaming"} => Len(frames) = stream.framed
  /\ \A i \in 1..Len(frames) : TellsBatch(Parsed(frames[i]), stream.batches[i])

\* C12: on one watch stream the i-th frame is produced from the i-th batch
\* the engine delivered: frames are in the order of the batches, none made
\* from a batch out of turn, and while the stream is live every batch the
\* transform has handled has exactly one frame.
C12_FramesFollowBatches ==
  \A s \in StreamIds : FramesTellBatches(RelayedFrames(s), streams[s])

\* A client has received two frames made from two batches that differ.
C12_Witness ==
  \E s \in StreamIds :
    /\ Len(Frames(streams[s].sent)) = 2
    /\ streams[s].batches[1] # streams[s].batches[2]
    /\ Frames(streams[s].sent)[1] # Frames(streams[s].sent)[2]

\* The keys of the last request, as sent.
WireKeys == [j \in 1..Len(WireField(req[1].body, 1)) |->
               WireBytes(WireField(req[1].body, 1)[j].msg, 1)]

\* The value envelope of a stored value.
EnvelopeData(value) == IF value.kind = "u64" THEN Reverse(value.data) ELSE value.data
EnvelopeEncoding(value) ==
  CASE value.kind = "u64" -> VE_LE64 [] value.kind = "bytes" -> VE_BYTES [] OTHER -> VE_V8

\* Whether a parsed WatchKeyOutput is the one of batch entry e for key k.
IsEntryOf(entry, k, e) ==
  /\ IsNull(entry) <=> IsNull(e.versionstamp)
  /\ ~IsNull(entry) =>
       /\ WireBytes(entry[1], 1) = encodeKey(k)
       /\ WireBytes(entry[1], 2) = EnvelopeData(e.value)
       /\ WireInt32(entry[1], 3) = EnvelopeEncoding(e.value)
       /\ encodeHex(WireBytes(entry[1], 4)) = e.versionstamp[1]

IsKeyOutputOf(keyOutput, k, e) ==
  /\ e.key = k
  /\ WireInt32(keyOutput.msg, 1) = 1
  /\ IsEntryOf(EntryOf(keyOutput), k, e)

\* Whether a parsed WatchOutput is the one of a batch for the keys.
IsOutputOf(out, keyOutputs, keys, batch) ==
  /\ WireInt32(out, 1) = SR_SUCCESS
  /\ Len(keyOutputs) = Len(keys)
  /\ \A j \in 1..Len(keys) : IsKeyOutputOf(keyOutputs[j], keys[j], batch[j])

IsOutputFor(out, keys, batch) == IsOutputOf(out, KeyOutputs(out), keys, batch)

FramesAreOutputs(frames, stream) ==
  \A i \in 1..Len(frames) :
    IsOutputFor(Parsed(frames[i]), stream.keys, stream.batches[i])

\* C13: every WatchOutput has status SR_SUCCESS and one WatchKeyOutput per key
\* of the watch request, in request order, each with changed = true and with
\* entry_if_changed absent exactly when the engine reports a null
\* versionstamp for the key, else the serialized entry (encoded key, value
\* envelope, raw versionstamp); the keys of a stream are those of its request.
C13_OneKeyOutputPerKey ==
  /\ \A s \in StreamIds : FramesAreOutputs(RelayedFrames(s), streams[s])
  /\ (~IsNull(req) /\ engineCalls = <<"watch">>) =>
       \E s \in StreamIds :
         [j \in 1..Len(streams[s].keys) |-> encodeKey(streams[s].keys[j])] = WireKeys

\* A frame for two watched keys, the first without an entry and the second
\* with one.
C13_Witness ==
  \E s \in StreamIds :
    /\ Len(streams[s].keys) = 2
    /\ Len(RelayedFrames(s)) >= 1
    /\ IsNull(streams[s].batches[1][1].versionstamp)
    /\ ~IsNull(streams[s].batches[1][2].versionstamp)

StreamRank(state) ==
  CASE state = "none" -> 0 [] state = "open" -> 1 [] state = "streaming" -> 2
    [] state = "closed" -> 3

\* C14: a watch stream moves only forward through open, streaming, closed;
\* a closed stream stays closed and nothing more is enqueued on it or written
\* to its client.
C14_StreamsOnlyMoveForward ==
  [][\A s \in StreamIds :
       /\ StreamRank(streams'[s].state) >= StreamRank(streams[s].state)
       /\ streams[s].state = "closed" =>
            /\ streams'[s].state = "closed"
            /\ streams'[s].sent = streams[s].sent
            /\ streams'[s].outbox = streams[s].outbox
            /\ streams'[s].framed = streams[s].framed]_vars

\* A stream closed by its client going away and a stream closed by an engine
\* error, both after a frame was written, and a later watch request answered.
C14_Witness ==
  /\ \E s \in StreamIds :
       /\ streams[s].state = "closed"
       /\ streams[s].watch = "cancelled"
       /\ Len(Frames(streams[s].sent)) >= 1
  /\ \E s \in StreamIds :
       /\ streams[s].state = "closed"
       /\ streams[s].watch = "errored"

\* C15: when the client of a watch response is gone the engine watch of that
\* stream is eventually no longer active, and an engine watch is cancelled
\* only for its own stream's client going away.
C15_DisconnectCancelsOwnWatch ==
  /\ \A s \in StreamIds :
       (streams[s].client = "gone") ~> (streams[s].watch # "active")
  /\ [][\A s \in StreamIds :
          (streams[s].watch = "active" /\ streams'[s].watch = "cancelled")
            => streams[s].client = "gone"]_vars

\* One stream's watch was cancelled for its client while another stream's
\* watch is still active.
C15_Witness ==
  \E s, t \in StreamIds :
    /\ streams[s].client = "gone"
    /\ streams[s].watch = "cancelled"
    /\ streams[t].client = "connected"
    /\ streams[t].watch = "active"

\* ------------------------------------------- properties of the key codec
\* The same key as JavaScript values: every NaN is the one number NaN.
SamePart(p, q) ==
  \/ p = q
  \/ p.t = "float" /\ q.t = "float" /\ IsNaNBits(p.b) /\ IsNaNBits(q.b)

SameKey(a, b) ==
  Len(a) = Len(b) /\ \A i \in 1..Len(a) : SamePart(a[i], b[i])

KeyCallIs(fn, given) ==
  ~IsNull(call) /\ call[1].fn = fn /\ call[1].given = given

\* C16: decodeKey(encodeKey(k)) is k for every key k, and
\* encodeKey(decodeKey(b)) is b for every byte string b that decodeKey
\* accepts.
C16_RoundTrip ==
  /\ KeyCallIs("decodeKey", "key") =>
       /\ call[1].result.ok
       /\ SameKey(call[1].result.key, call[1].keys[1])
  /\ KeyCallIs("encodeKey", "bytes") => call[1].encoded[1] = call[1].bytes

\* decodeKey accepted an integer written with a leading zero byte, and
\* encodeKey of the key it gave is another byte string.
C16_Witness ==
  /\ KeyCallIs("encodeKey", "bytes")
  /\ call[1].bytes = <<22, 0, 1>>
  /\ call[1].result.key = <<IntPart(FALSE, <<1>>)>>
  /\ call[1].encoded[1] = <<21, 1>>

\* The order of two magnitudes without leading zeros: the shorter is the
\* smaller, and of two of one length the bytewise smaller.
MagnitudeLess(a, b) == Len(a) < Len(b) \/ (Len(a) = Len(b) /\ BytesLess(a, b))

IntLess(p, q) ==
  IF p.neg /\ q.neg THEN MagnitudeLess(q.b, p.b)
  ELSE IF p.neg # q.neg THEN p.neg
  ELSE MagnitudeLess(p.b, q.b)

\* The order of numbers: -inf, the negative numbers, -0, +0, the positive
\* numbers, +inf, and NaN after them all.
FloatLess(x, y) ==
  IF IsNaNBits(x) THEN FALSE
  ELSE IF IsNaNBits(y) THEN TRUE
  ELSE IF x[1] >= 128 /\ y[1] >= 128 THEN BytesLess(y, x)
  ELSE IF (x[1] >= 128) # (y[1] >= 128) THEN x[1] >= 128
  ELSE BytesLess(x, y)

\* The order of two parts of one type.
PartLess(p, q) ==
  CASE p.t = "int" -> IntLess(p, q)
    [] p.t = "float" -> FloatLess(p.b, q.b)
    [] p.t = "bool" -> ~p.neg /\ q.neg
    [] OTHER -> BytesLess(p.b, q.b)

\* The order of two keys: by the first part that differs, a key before the
\* keys it is a prefix of.
RECURSIVE KeyLess(_, _)
KeyLess(a, b) ==
  IF b = <<>> THEN FALSE
  ELSE IF a = <<>> THEN TRUE
  ELSE IF SamePart(Head(a), Head(b)) THEN KeyLess(Tail(a), Tail(b))
  ELSE PartLess(Head(a), Head(b))

\* C17: for two keys with the same types position by position, the order of
\* the keys is the bytewise order of their encodings, NaN being the greatest
\* float.
C17_OrderIsBytewise ==
  KeyCallIs("encodeKey", "keys") =>
    LET a == call[1].keys[1]
        b == call[1].keys[2]
        ea == call[1].encoded[1]
        eb == call[1].encoded[2]
    IN  /\ KeyLess(a, b) <=> BytesLess(ea, eb)
        /\ KeyLess(b, a) <=> BytesLess(eb, ea)
        /\ SameKey(a, b) <=> ea = eb

\* A NaN with the sign bit set and -inf were encoded, and the NaN's encoding
\* is the smaller.
C17_Witness ==
  /\ KeyCallIs("encodeKey", "keys")
  /\ call[1].keys = <<<<FloatPart(NegInf)>>, <<FloatPart(NegNaN)>>>>
  /\ BytesLess(call[1].encoded[2], call[1].encoded[1])

\* Where the decoder, reading part after part, first meets 0x00 or 0xff as
\* the tag of a part: the parts before it, the byte, and what follows it.
noMarker == [found |-> FALSE, key |-> <<>>, marker |-> 0, after |-> <<>>]

RECURSIVE MarkerFrom(_, _)
MarkerFrom(r, key) ==
  IF r = <<>> THEN noMarker
  ELSE IF Head(r) \in Markers
    THEN [found |-> TRUE, key |-> key, marker |-> Head(r), after |-> Tail(r)]
  ELSE LET got == readKvPart(Head(r), Tail(r))
       IN  IF got.ok THEN MarkerFrom(got.remaining, Append(key, got.value))
           ELSE noMarker

MarkerOf(bytes) == MarkerFrom(bytes, <<>>)

ModeOf(marker) == IF marker = 0 THEN 1 ELSE -1

StopsAt(result, m) ==
  /\ result.ok
  /\ result.key = m.key
  /\ result.mode = ModeOf(m.marker)

\* C18: when decodeRangeKey reads 0x00 or 0xff where the tag of a part is
\* expected, it stops with the parts read so far and mode after or before,
\* whatever bytes follow; decodeKey fails on such a byte.
C18_MarkerEndsRangeKey ==
  /\ (KeyCallIs("decodeRangeKey", "bytes") /\ MarkerOf(call[1].bytes).found) =>
       StopsAt(call[1].result, MarkerOf(call[1].bytes))
  /\ (KeyCallIs("decodeKey", "bytes") /\ MarkerOf(call[1].bytes).found) =>
       ~call[1].result.ok

\* decodeRangeKey read 0x00 after the key ("a"), another part followed, and
\* the call failed.
C18_Witness ==
  /\ KeyCallIs("decodeRangeKey", "bytes")
  /\ call[1].bytes = encodeKey(KeyA) \o <<0, 21, 1>>
  /\ ~call[1].result.ok

\* ------------------------------------ properties of the message decoders
PbDecodedBoth ==
  /\ ~IsNull(call)
  /\ call[1].fn = "decode"
  /\ ~IsNull(call[1].extended)

\* C19: for each request message type, a record with a field number the
\* type does not have, put in at a record boundary of a message that
\* decodes, leaves the decoded message as it was.
C19_UnknownFieldsAreSkipped ==
  (PbDecodedBoth /\ call[1].given[1].ok) =>
    call[1].extended[1] = call[1].given[1]

\* An AtomicWrite was decoded with a length-delimited record of field 2000
\* between its first and its second record.
C19_Witness ==
  /\ PbDecodedBoth
  /\ call[1].type = "AtomicWrite"
  /\ call[1].at > 0
  /\ call[1].at < Len(call[1].buf)
  /\ call[1].extra = writePbRecord(PbBytes(2000, <<255, 255>>))
  /\ call[1].given[1].ok
  /\ Len(call[1].given[1].mutations) = 1
  /\ call[1].extended[1] = call[1].given[1]

\* ------------------------------------- properties of the value envelope
\* The last record of the request: the mutation, its type, and its value
\* envelope as it came on the wire.
LastMutation == req[1].body[Len(req[1].body)].msg
LastType == WireInt32(LastMutation, 3)
HasEnvelope == WireField(LastMutation, 2) # <<>>
LastEnvelope == WireField(LastMutation, 2)[Len(WireField(LastMutation, 2))].msg
LastData == WireBytes(LastEnvelope, 1)
LastEncoding == WireInt32(LastEnvelope, 2)

\* The request was refused and nothing was committed.
Rejected ==
  /\ resp[1].status = 400
  /\ engineCalls = <<>>
  /\ tx = <<>>
  /\ committed = Null
  /\ store = SeededStore
  /\ vsCounter = 1

\* The transaction was committed, and the operation of the last mutation
\* carries the value v.
CommittedWith(v) ==
  /\ resp[1].status = 200
  /\ engineCalls = <<"commit">>
  /\ Len(tx) = Len(req[1].body)
  /\ tx[Len(tx)].value = Some(v)

\* The 64-bit counter whose value is the little-endian reading of data.
IsCounterOf(v, data) ==
  /\ v.kind = "u64"
  /\ Len(v.data) = 8
  /\ \A i \in 1..8 : v.data[9 - i] = data[i]

CommittedWithCounter ==
  /\ engineCalls = <<"commit">>
  /\ tx # <<>>
  /\ ~IsNull(tx[Len(tx)].value)
  /\ IsCounterOf(tx[Len(tx)].value[1], LastData)

IsCounterEnvelope == HasEnvelope /\ LastEncoding = VE_LE64 /\ Len(LastData) = 8

\* C20: a value envelope is decoded by its encoding: BYTES gives the data,
\* LE64 the counter with the little-endian value of the data and an error
\* unless the data is 8 bytes, V8 what the deserializer gives, any other
\* encoding an error; a SUM, MAX or MIN whose envelope gives no counter is
\* refused and nothing is committed.
C20_EnvelopeDecodesByEncoding ==
  (AtomicWriteAnswered /\ req[1].body \in ValueBodies) =>
    IF LastType \in {M_SUM, M_MAX, M_MIN}
      THEN IF IsCounterEnvelope THEN CommittedWithCounter ELSE Rejected
    ELSE IF ~HasEnvelope THEN Rejected
    ELSE CASE LastEncoding = VE_BYTES -> CommittedWith(JsBytes(LastData))
           [] LastEncoding = VE_LE64 ->
                IF Len(LastData) = 8 THEN CommittedWithCounter ELSE Rejected
           [] LastEncoding = VE_V8 ->
                IF deserializeOk(LastData) THEN CommittedWith(deserialize(LastData))
                ELSE Rejected
           [] OTHER -> Rejected

\* A SET that decodes, then a SUM whose envelope is BYTES with 8 bytes of
\* data: the request was refused.
C20_Witness ==
  /\ AtomicWriteAnswered
  /\ req[1].body \in ValueBodies
  /\ Len(req[1].body) = 2
  /\ LastType = M_SUM
  /\ HasEnvelope
  /\ LastEncoding = VE_BYTES
  /\ LastData = LE64Five
  /\ Rejected

\* ------------------------------------------------ properties of routing
KnownPaths == {"/"} \cup DatapathPaths

\* The request received in this step is answered with `status`, and the
\* live tokens, their timers and the engine are as they were.
AnsweredUntouched(status) ==
  /\ ~IsNull(resp')
  /\ resp'[1].status = status
  /\ resp'[1].body = <<>>
  /\ IsNull(resp'[1].json)
  /\ engineCalls' = <<>>
  /\ UNCHANGED <<ephemeralTokens, timers, issued, store, vsCounter, queue, streams>>

\* C21: a request to a known endpoint whose method is not POST is answered
\* 405 with Allow: POST, a request to any other path is answered 404, and
\* neither touches the live tokens or the engine.
C21_MethodAndPathRejections ==
  [][(req' # req) =>
       /\ (req'[1].path \in KnownPaths /\ req'[1].method # "POST") =>
            AnsweredUntouched(405) /\ resp'[1].allow = "POST"
       /\ req'[1].path \notin KnownPaths => AnsweredUntouched(404)]_vars

\* A GET of "/" that carries the access token, answered 405 while a token
\* is live.
C21_Witness ==
  /\ ~IsNull(req)
  /\ ~IsNull(resp)
  /\ req[1].path = "/"
  /\ req[1].method = "GET"
  /\ req[1].authorization = Some(Bearer \o accessToken)
  /\ resp[1].status = 405
  /\ resp[1].allow = "POST"
  /\ ephemeralTokens # {}

\* ------------------------------------------------ properties of shutdown
Interrupted == ~server.sigint

InFlight == ~IsNull(req) /\ IsNull(resp)

\* C22: once the interrupt signal has come no request is taken and no watch
\* stream is opened; a request in flight still gets its response; and once
\* the requests in flight have drained the server is finished.
C22_GracefulShutdown ==
  /\ [][Interrupted =>
          /\ req' = req
          /\ \A s \in 1..MaxStreams : ~streamLive(s) => ~streamLive(s)']_vars
  /\ (Interrupted /\ InFlight) ~> ~InFlight
  /\ (Interrupted /\ Drained) ~> server.state = "finished"

\* The signal came while a snapshot_read of two ranges was in flight; the
\* request was answered 200 and the server is finished.
C22_Witness ==
  /\ server.state = "finished"
  /\ ~IsNull(req)
  /\ ~IsNull(resp)
  /\ req[1].path = "/kv/snapshot_read"
  /\ Len(tasks) = 1
  /\ resp[1].status = 200
  /\ streams[1].state \notin {"none", "open", "streaming"}

\* ------------------------------------- properties of the engine's options
\* The answered request carried exactly the record r.
OptionsAnswered(r) == AtomicWriteAnswered /\ req[1].body = <<r>>

\* The one operation of the committed transaction.
OnlyOp == tx[1]
CommittedOne(op) == engineCalls = <<"commit">> /\ Len(tx) = 1 /\ tx[1].op = op

\* C23: for a SET and a SET_SUFFIX_VERSIONSTAMPED_KEY the engine's set is
\* given expireIn = expire_at_ms - now exactly when expire_at_ms is above 0,
\* and no expireIn otherwise.
C23_ExpireInWhenPositive ==
  \A type \in SetTypes, expireAt \in ExpireAts :
    OptionsAnswered(OptionMutation(type, expireAt)) =>
      /\ CommittedOne("set")
      /\ OnlyOp.expireIn =
           IF ~IsNull(expireAt) /\ expireAt[1] > 0
             THEN Some(expireAt[1] - req[1].receivedAt) ELSE Null

\* A SET with expire_at_ms = -1 at time 2: the set was given expireIn = -3.
C23_Witness ==
  /\ OptionsAnswered(OptionMutation(M_SET, Some(-1)))
  /\ req[1].receivedAt = 2
  /\ CommittedOne("set")
  /\ OnlyOp.expireIn = Some(-3)
  /\ resp[1].status = 200

\* The intervals of a backoff schedule, in wire order, as the uint32 numbers
\* the engine is given.
Intervals(backoff) == Flatten(SeqMap(LAMBDA g : g.values, backoff))
Uint32Of(n) == <<n % 65536, n \div 65536>>

\* C24: the engine's enqueue is given delay = deadline_ms - now exactly when
\* deadline_ms is above now, keysIfUndelivered (the decoded keys, in order)
\* exactly when keys_if_undelivered is not empty, and backoffSchedule exactly
\* when backoff_schedule is not empty, its intervals in wire order whether
\* they were sent packed or not.
C24_EnqueueOptions ==
  \A deadline \in Deadlines, keys \in UndeliveredKeys, backoff \in Backoffs :
    OptionsAnswered(OptionEnqueue(deadline, keys, backoff)) =>
      /\ CommittedOne("enqueue")
      /\ OnlyOp.value = Some(JsObject(2))
      /\ OnlyOp.delay =
           IF ~IsNull(deadline) /\ deadline[1] > req[1].receivedAt
             THEN Some(deadline[1] - req[1].receivedAt) ELSE Null
      /\ OnlyOp.keysIfUndelivered = IF keys # <<>> THEN Some(keys) ELSE Null
      /\ OnlyOp.backoffSchedule =
           IF Intervals(backoff) # <<>>
             THEN Some(SeqMap(Uint32Of, Intervals(backoff))) ELSE Null

\* An Enqueue at time 2 with deadline_ms = 3, two keys and a schedule sent
\* partly packed: delay 1, both keys, the four intervals in wire order.
C24_Witness ==
  /\ AtomicWriteAnswered
  /\ req[1].receivedAt = 2
  /\ CommittedOne("enqueue")
  /\ OnlyOp.delay = Some(1)
  /\ OnlyOp.keysIfUndelivered = Some(<<KeyT, KeyA>>)
  /\ OnlyOp.backoffSchedule = Some(<<Uint32Of(5), Uint32Of(1), Uint32Of(2), Uint32Of(3)>>)
  /\ queue = <<JsObject(2)>>

\* ------------------------------------------ properties of backpressure
\* The frames of stream s of which a chunk is enqueued and not yet written
\* to the client (a frame is two chunks, its header and its message).
PendingFrames(s) == (Len(streams[s].outbox) + 1) \div 2

\* The transform is handed a batch of stream s in this step.
TakesBatch(s) == streams'[s].framed > streams[s].framed

OutputField(number, name, kind) == [number |-> number, name |-> name, kind |-> kind]

OutputFields(type) ==
  CASE type = "SnapshotReadOutput" ->
         {OutputField(1, "ranges", "repeated"), OutputField(2, "read_disabled", "bool"),
          OutputField(4, "read_is_strongly_consistent", "bool"),
          OutputField(8, "status", "int")}
    [] type = "ReadRangeOutput" -> {OutputField(1, "values", "repeated")}
    [] type = "AtomicWriteOutput" ->
         {OutputField(1, "status", "int"), OutputField(2, "versionstamp", "bytes"),
          OutputField(4, "failed_checks", "bytes")}
    [] type = "KvEntry" ->
         {OutputField(1, "key", "bytes"), OutputField(2, "value", "bytes"),
          OutputField(3, "encoding", "int"), OutputField(4, "versionstamp", "bytes")}
    [] type = "WatchOutput" ->
         {OutputField(1, "status", "int"), OutputField(2, "keys", "repeated")}
    [] type = "WatchKeyOutput" ->
         {OutputField(1, "changed", "bool"), OutputField(2, "entry_if_changed", "optional")}

\* How many records a field with value v is encoded as: none at its default,
\* one for each element of a repeated field.
Occurrences(v, kind) ==
  CASE kind = "int" -> IF v # 0 THEN 1 ELSE 0
    [] kind = "bool" -> IF v THEN 1 ELSE 0
    [] kind = "bytes" -> IF v # <<>> THEN 1 ELSE 0
    [] kind = "optional" -> IF IsNull(v) THEN 0 ELSE 1
    [] kind = "repeated" -> Len(v)

Ascending(records) ==
  \A i \in 1..(Len(records) - 1) : records[i].fieldNumber <= records[i + 1].fieldNumber

\* The bytes are records of the message's fields, in ascending order of the
\* field number, none of them for a field at its default value.
EncodedInOrder(type, msg, parsed) ==
  /\ parsed.ok
  /\ Ascending(parsed.records)
  /\ \A i \in 1..Len(parsed.records) :
       \E f \in OutputFields(type) : parsed.records[i].fieldNumber = f.number
  /\ \A f \in OutputFields(type) :
       Len(WireField(parsed.records, f.number)) = Occurrences(msg[f.name], f.kind)

Encoded == ~IsNull(call) /\ call[1].fn = "encode"

\* C26: a response message is encoded with its fields in ascending order of
\* the field number, and a field at its default value (zero, empty bytes,
\* false, an empty repeated field, an absent entry) is left out; an
\* AtomicWriteOutput with every field at its default is zero bytes.
C26_AscendingAndDefaultsOmitted ==
  Encoded =>
    LET c == call[1]
    IN  /\ EncodedInOrder(c.type, c.msg, readPbRecords(c.out[1]))
        /\ (/\ c.type = "AtomicWriteOutput"
            /\ c.msg.status = AW_UNSPECIFIED
            /\ c.msg.versionstamp = <<>>
            /\ c.msg.failed_checks = <<>>) => c.out[1] = <<>>

\* A SnapshotReadOutput with two ranges, strongly consistent, status
\* SR_SUCCESS and read_disabled false: four records, of the fields 1, 1, 4
\* and 8.
C26_Witness ==
  /\ Encoded
  /\ call[1].type = "SnapshotReadOutput"
  /\ Len(call[1].msg.ranges) = 2
  /\ ~call[1].msg.read_disabled
  /\ call[1].msg.status = SR_SUCCESS
  /\ Len(readPbRecords(call[1].out[1]).records) = 4
  /\ readPbRecords(call[1].out[1]).records[3].fieldNumber = 4
  /\ readPbRecords(call[1].out[1]).records[4].fieldNumber = 8

\* ------------------------------------------- properties of the live tokens
\* The request received in this step is a POST of "/" with the access token.
BootstrapArrives ==
  /\ ~IsNull(req')
  /\ req'[1].path = "/"
  /\ req'[1].method = "POST"
  /\ req'[1].authorization = Some(Bearer \o accessToken)

\* This step answers a bootstrap with the token u, which was not live, and
\* u is the one token that becomes live.
IssuesToken(u) ==
  /\ BootstrapArrives
  /\ ~IsNull(resp')
  /\ resp'[1].status = 200
  /\ resp'[1].json # Null
  /\ resp'[1].json[1].token = u
  /\ u \notin ephemeralTokens
  /\ ephemeralTokens' = ephemeralTokens \cup {u}

\* This step is the expiry timer of a live token, and that token is the one
\* token that stops being live.
ExpiresToken(timer) ==
  /\ timer \in timers
  /\ timers' = timers \ {timer}
  /\ ephemeralTokens' = ephemeralTokens \ {timer.token}
  /\ UNCHANGED <<req, resp>>

\* C27: the set of live tokens changes only when a POST of "/" with the
\* access token adds one token that was not live, and when the expiry timer
\* of a token removes that token; a bootstrap with the access token does
\* add one, and any other request leaves the set as it was.
C27_TokensChangeByIssueAndExpiry ==
  [][/\ ephemeralTokens' # ephemeralTokens =>
          \/ \E u \in UUIDs : IssuesToken(u)
          \/ \E timer \in timers : ExpiresToken(timer)
     /\ (resp' # resp /\ BootstrapArrives) => \E u \in UUIDs : IssuesToken(u)
     /\ (req' # req /\ ~BootstrapArrives) => ephemeralTokens' = ephemeralTokens]_vars

\* A first token expired and was removed, and the last request, a bootstrap,
\* was issued another, the one live token.
C27_Witness ==
  /\ ~IsNull(req)
  /\ req[1].path = "/"
  /\ ~IsNull(resp)
  /\ resp[1].status = 200
  /\ \E u \in UUIDs :
       /\ ephemeralTokens = {u}
       /\ resp[1].json[1].token = u
       /\ \E v \in UUIDs \ {u} : ~IsNull(issued[v]) /\ issued[v][1] < issued[u][1]

\* --------------------------------- properties of the order of the checks
\* The response of this step is `status`, and nothing was done for the
\* request: no engine call, no list task, no stream.
RefusedWith(status) ==
  /\ ~IsNull(resp')
  /\ resp'[1].status = status
  /\ resp'[1].body = <<>>
  /\ engineCalls' = <<>>
  /\ tasks' = <<>>
  /\ tx' = <<>>
  /\ UNCHANGED <<authVars, engineVars, streams>>

CarriesLiveToken(request) ==
  \E u \in ephemeralTokens : request.authorization = Some(Bearer \o u)

\* C28: a datapath request is checked for its method first (405), then for
\* its token (401), then its body is decoded (400): a request that is not a
\* POST is answered 405 whatever its token and body, a POST without a live
\* token 401 whatever its body, a POST with a live token and a body that
\* does not decode 400, and any other is not refused.
C28_MethodThenTokenThenBody ==
  [][(req' # req /\ req'[1].path \in DatapathPaths) =>
       IF req'[1].method # "POST"
         THEN RefusedWith(405) /\ resp'[1].allow = "POST"
       ELSE IF ~CarriesLiveToken(req'[1])
         THEN RefusedWith(401) /\ resp'[1].wwwAuthenticate = "Bearer"
       ELSE IF req'[1].body = MalformedBody
         THEN RefusedWith(400)
       ELSE IsNull(resp') \/ resp'[1].status = 200]_vars

\* A POST with the access token in place of a live token and a body that
\* does not decode, answered 401.
C28_Witness ==
  /\ DatapathPostAnswered
  /\ req[1].authorization = Some(Bearer \o accessToken)
  /\ req[1].body = MalformedBody
  /\ resp[1].status = 401
  /\ streams[1].state = "open"

\* ------------------------------------ properties of admission and expiry
Expired == Token1 \notin ephemeralTokens /\ ~IsNull(issued[Token1])

\* Stream s holds a batch that is not framed or a chunk that is not written.
Undelivered(s) ==
  streams[s].framed < Len(streams[s].batches) \/ streams[s].outbox # <<>>

\* The response of connection s was returned and its body has not ended.
BodyOpen(s) == streams[s].state \in {"open", "streaming"}

\* Every batch of stream s, and there is one, is framed and written.
Delivered(s) ==
  /\ BodyOpen(s)
  /\ Len(streams[s].batches) > 0
  /\ streams[s].framed = Len(streams[s].batches)
  /\ streams[s].outbox = <<>>

ReadInFlight == ~IsNull(req) /\ IsNull(resp) /\ req[1].path = "/kv/snapshot_read"

ReadCompleted ==
  /\ ~IsNull(req)
  /\ ~IsNull(resp)
  /\ req[1].path = "/kv/snapshot_read"
  /\ resp[1].status = 200

ListedFrom(st, t) ==
  SeqMap(LAMBDA e : serializeEntry(EngineEntry(e)), EngineList(st, t.selector, t.options))

\* The states the engine was in while the request was in progress: the one
\* it was received in, and the one after the commit, if there was one.
EngineStates == {ReadStore, store}

\* C30: the ranges of one snapshotRead are read from one state of the
\* engine: there is a state the engine was in during the request that every
\* range of the response is the list of.
C30_OneEngineState ==
  (ReadCompleted /\ req[1].body \in SnapshotBodies) =>
    \E st \in EngineStates :
      \A i \in 1..Len(tasks) : tasks[i].values = ListedFrom(st, tasks[i])

\* Two ranges over the same keys, answered 200 with different entries: the
\* write was committed after the first was read and before the second.
C30_Witness ==
  /\ ReadCompleted
  /\ req[1].body = <<PrefixRange(<<>>), PrefixRange(<<>>)>>
  /\ Len(tasks) = 2
  /\ tasks[1].selector = tasks[2].selector
  /\ tasks[1].values = ListedFrom(ReadStore, tasks[1])
  /\ tasks[2].values = ListedFrom(store, tasks[2])
  /\ tasks[1].values # tasks[2].values
====
